---------------------------- MODULE Spec2Model ----------------------------
(***************************************************************************)
(* State-machine model of dd_rca: log clustering (analysis/logs.py), log   *)
(* scoring (analysis/scoring.py), span aggregation (analysis/apm.py), the  *)
(* windows of a run (windows.py), the attribution pipeline and its three   *)
(* entry points (pipeline.py), event parsing (analysis/events.py) and the  *)
(* client's retry loop and cursor paging (datadog_client.py).              *)
(*                                                                         *)
(* Conventions.                                                            *)
(*  - A Python str is a sequence of one-character strings, so that the     *)
(*    regular expressions of logs.py act on characters.                    *)
(*  - None is the model value None; a missing dict key reads as None.      *)
(*  - A Python float is an exact rational <<n, d>> with d > 0, kept in     *)
(*    lowest terms (binary rounding is not modelled).                      *)
(*  - A dict is the sequence of its values in insertion order.             *)
(***************************************************************************)
EXTENDS Integers, Sequences, FiniteSets, TLC

VARIABLES
    pc,             \* the step the run is at
    msg,            \* the argument of a function applied on its own
    out,            \* its result
    incident_logs,  \* the log records of the incident window
    baseline_logs,  \* the log records of the baseline window
    clusters,       \* the cluster map, in insertion order
    rank_limit,     \* the limit given to rank_clusters
    score_limit,    \* the limit given to score_log_clusters
    top_clusters,   \* the list rank_clusters returns
    candidates,     \* the candidate list
    mode,           \* "latency" or "errors"
    scope_complete, \* the scope has both a service and an env
    incident_spans, \* the raw spans of the incident window
    baseline_spans, \* the raw spans of the baseline window
    apm_findings,   \* the findings _maybe_apm_attribution returns
    apm_candidates, \* the candidates it returns
    report_candidates, \* findings.candidates of the report
    calls           \* the queries issued to the telemetry client so far

vars == <<pc, msg, out, incident_logs, baseline_logs, clusters, rank_limit,
          score_limit, top_clusters, candidates, mode, scope_complete,
          incident_spans, baseline_spans, apm_findings, apm_candidates,
          report_candidates, calls>>

logVars == <<incident_logs, baseline_logs, clusters, rank_limit, score_limit,
             top_clusters, candidates>>

apmVars == <<mode, scope_complete, incident_spans, baseline_spans,
             apm_findings, apm_candidates, report_candidates>>

(***************************************************************************)
(* Characters and the character classes of the regular expressions.        *)
(***************************************************************************)
Digits == {"0", "1", "2", "3", "4", "5", "6", "7", "8", "9"}

HexLetters == {"a", "b", "c", "d", "e", "f", "A", "B", "C", "D", "E", "F"}

HexDigits == Digits \cup HexLetters

Letters ==
    {"a", "b", "c", "d", "e", "f", "g", "h", "i", "j", "k", "l", "m",
     "n", "o", "p", "q", "r", "s", "t", "u", "v", "w", "x", "y", "z",
     "A", "B", "C", "D", "E", "F", "G", "H", "I", "J", "K", "L", "M",
     "N", "O", "P", "Q", "R", "S", "T", "U", "V", "W", "X", "Y", "Z"}

\* \w of the re module
WordChars == Letters \cup Digits \cup {"_"}

\* \s of the re module, and the characters str.strip() removes
Whitespace == {" ", "\t", "\n"}

\* s[i:] of a sequence, 1-based: the elements from index i on
Drop(s, i) == SubSeq(s, i, Len(s))

\* s[:n]
Take(s, n) == SubSeq(s, 1, IF n < Len(s) THEN n ELSE Len(s))

WordAt(s, i) == i \in 1..Len(s) /\ s[i] \in WordChars

\* \b holds between s[i-1] and s[i]
Boundary(s, i) == WordAt(s, i - 1) # WordAt(s, i)

\* length of the longest run of characters of class S that starts at s[i]
RunLen(S, s, i) ==
    IF i > Len(s) THEN 0
    ELSE (CHOOSE k \in i..(Len(s) + 1) :
              /\ k = Len(s) + 1 \/ s[k] \notin S
              /\ \A j \in i..(k - 1) : s[j] \in S) - i

AllIn(S, s, from, to) == \A k \in from..to : s[k] \in S

(***************************************************************************)
(* The length of the match of each pattern at position i, 0 when the       *)
(* pattern does not match there.  Every pattern is anchored by \b on both  *)
(* sides and made of word characters at its two ends, so a match cannot    *)
(* end inside a run of word characters: backtracking never yields a        *)
(* shorter match.                                                          *)
(***************************************************************************)
\* _UUID_RE, re.I
UuidMatchLen(s, i) ==
    IF /\ i + 35 <= Len(s)
       /\ Boundary(s, i)
       /\ AllIn(HexDigits, s, i, i + 7)
       /\ s[i + 8] = "-"
       /\ AllIn(HexDigits, s, i + 9, i + 12)
       /\ s[i + 13] = "-"
       /\ s[i + 14] \in {"1", "2", "3", "4", "5"}
       /\ AllIn(HexDigits, s, i + 15, i + 17)
       /\ s[i + 18] = "-"
       /\ s[i + 19] \in {"8", "9", "a", "b", "A", "B"}
       /\ AllIn(HexDigits, s, i + 20, i + 22)
       /\ s[i + 23] = "-"
       /\ AllIn(HexDigits, s, i + 24, i + 35)
       /\ Boundary(s, i + 36)
    THEN 36 ELSE 0

\* _HEX_RE, re.I
HexMatchLen(s, i) ==
    IF /\ i + 2 <= Len(s)
       /\ Boundary(s, i)
       /\ s[i] = "0"
       /\ s[i + 1] \in {"x", "X"}
    THEN LET n == RunLen(HexDigits, s, i + 2)
         IN  IF n >= 1 /\ Boundary(s, i + 2 + n) THEN 2 + n ELSE 0
    ELSE 0

\* one \d{1,3} group of _IP_RE followed by its dot, from s[j] on: the
\* position after the dot, or 0 when the group does not match (or j = 0)
IpAfterGroup(s, j, n) ==
    IF j # 0 /\ n \in 1..3 /\ j + n <= Len(s) /\ s[j + n] = "." THEN j + n + 1 ELSE 0

IpNext(s, j) == IpAfterGroup(s, j, RunLen(Digits, s, j))

\* the last \d{1,3} group and the closing \b
IpEnd(s, i, j, n) ==
    IF j # 0 /\ n \in 1..3 /\ Boundary(s, j + n) THEN j + n - i ELSE 0

IpLast(s, i, j) == IpEnd(s, i, j, RunLen(Digits, s, j))

\* _IP_RE
IpMatchLen(s, i) ==
    IF Boundary(s, i) THEN IpLast(s, i, IpNext(s, IpNext(s, IpNext(s, i)))) ELSE 0

\* _NUM_RE
NumMatchLen(s, i) ==
    IF i <= Len(s) /\ s[i] \in Digits /\ Boundary(s, i)
    THEN LET n == RunLen(Digits, s, i)
         IN  IF Boundary(s, i + n) THEN n ELSE 0
    ELSE 0

\* _WS_RE
WsMatchLen(s, i) == RunLen(Whitespace, s, i)

\* the concatenation of the sequences P[lo], ..., P[hi]
RECURSIVE Concat(_, _, _)
Concat(P, lo, hi) ==
    IF lo > hi THEN <<>>
    ELSE IF lo = hi THEN P[lo]
    ELSE Concat(P, lo, (lo + hi) \div 2) \o Concat(P, (lo + hi) \div 2 + 1, hi)

(***************************************************************************)
(* pattern.sub(repl, s) replaces the leftmost, non-overlapping matches.    *)
(* L[i] is the length of the match of the pattern at s[i] (0: no match)    *)
(* and longest the greatest of them; the scan takes the match at i unless  *)
(* i lies inside a match it took earlier.                                  *)
(***************************************************************************)
Longest(L) ==
    IF L = <<>> THEN 0
    ELSE CHOOSE m \in {L[i] : i \in 1..Len(L)} : \A i \in 1..Len(L) : L[i] <= m

\* the positions before i from which a match reaches beyond i
Before(L, longest, i) ==
    {j \in (i - longest + 1)..(i - 1) : j >= 1 /\ L[j] > 0 /\ j + L[j] > i}

RECURSIVE Taken(_, _, _)
Taken(L, longest, i) ==
    L[i] > 0 /\ \A j \in Before(L, longest, i) : ~Taken(L, longest, j)

Covered(L, longest, i) == \E j \in Before(L, longest, i) : Taken(L, longest, j)

Piece(L, longest, repl, s, i) ==
    IF Taken(L, longest, i) THEN repl
    ELSE IF Covered(L, longest, i) THEN <<>> ELSE <<s[i]>>

ReSubWith(L, longest, repl, s) ==
    Concat([i \in 1..Len(s) |-> Piece(L, longest, repl, s, i)], 1, Len(s))

ReSub(L, repl, s) == ReSubWith(L, Longest(L), repl, s)

\* the match lengths as a sequence
AsSeq(f) == f \o <<>>

SubUuid(s) ==
    ReSub(AsSeq([i \in 1..Len(s) |-> UuidMatchLen(s, i)]),
          <<"<", "u", "u", "i", "d", ">">>, s)

SubHex(s) ==
    ReSub(AsSeq([i \in 1..Len(s) |-> HexMatchLen(s, i)]),
          <<"<", "h", "e", "x", ">">>, s)

SubIp(s) ==
    ReSub(AsSeq([i \in 1..Len(s) |-> IpMatchLen(s, i)]), <<"<", "i", "p", ">">>, s)

SubNum(s) ==
    ReSub(AsSeq([i \in 1..Len(s) |-> NumMatchLen(s, i)]),
          <<"<", "n", "u", "m", ">">>, s)

SubWs(s) == ReSub(AsSeq([i \in 1..Len(s) |-> WsMatchLen(s, i)]), <<" ">>, s)

\* r cut after the last of the positions ends (there is at most one)
RStripTo(r, ends) == Take(r, IF ends = {} THEN 0 ELSE CHOOSE k \in ends : TRUE)

\* str.strip()
LStrip(s) == Drop(s, RunLen(Whitespace, s, 1) + 1)

RStrip(r) ==
    RStripTo(r, {k \in 1..Len(r) :
                    /\ r[k] \notin Whitespace
                    /\ \A j \in (k + 1)..Len(r) : r[j] \in Whitespace})

Strip(s) == RStrip(LStrip(s))

MaxNormLen == 500

normalize_message(m) ==
    Take(SubWs(SubNum(SubIp(SubHex(SubUuid(Strip(m)))))), MaxNormLen)

(***************************************************************************)
(* Python values.                                                          *)
(***************************************************************************)
\* None where a str is expected: a sequence that is no str ("None" is not
\* a character), so that it compares with every str
NoneStr == <<"None">>

IsStr(x) == x # NoneStr

\* bool(x) of a str or None
Truthy(x) == x # NoneStr /\ x # <<>>

\* x or y
Or(x, y) == IF Truthy(x) THEN x ELSE y

\* _safe_str of logs.py
safe_str(x) == IF x = NoneStr THEN <<>> ELSE x

(***************************************************************************)
(* Exact rationals <<n, d>>, d > 0, in lowest terms.                       *)
(***************************************************************************)
Abs(x) == IF x < 0 THEN -x ELSE x

RECURSIVE Gcd(_, _)
Gcd(a, b) == IF b = 0 THEN a ELSE Gcd(b, a % b)

Rat(n, d) ==
    LET g == Gcd(Abs(n), Abs(d))
        s == IF d < 0 THEN -1 ELSE 1
    IN  <<(s * n) \div g, (s * d) \div g>>

RInt(n) == <<n, 1>>

RZero == RInt(0)

RLess(a, b) == a[1] * b[2] < b[1] * a[2]

RLeq(a, b) == a[1] * b[2] <= b[1] * a[2]

RAdd(a, b) == Rat(a[1] * b[2] + b[1] * a[2], a[2] * b[2])

RSub(a, b) == Rat(a[1] * b[2] - b[1] * a[2], a[2] * b[2])

RMul(a, b) == Rat(a[1] * b[1], a[2] * b[2])

\* a / b, b # 0
RDiv(a, b) == Rat(a[1] * b[2], a[2] * b[1])

\* min(a, b) and max(a, b) of two floats
RMin(a, b) == IF RLess(b, a) THEN b ELSE a

RMax(a, b) == IF RLess(a, b) THEN b ELSE a

(***************************************************************************)
(* list.sort(key=..., reverse=True): a stable sort, elements whose keys    *)
(* are equal keep their order.  Gt(x, y) says that the key of x is         *)
(* greater than the key of y.                                              *)
(***************************************************************************)
InsertDesc(Gt(_, _), x, s) ==
    LET k == IF \E i \in 1..Len(s) : Gt(x, s[i])
             THEN CHOOSE i \in 1..Len(s) :
                     Gt(x, s[i]) /\ \A j \in 1..(i - 1) : ~Gt(x, s[j])
             ELSE Len(s) + 1
    IN  SubSeq(s, 1, k - 1) \o <<x>> \o SubSeq(s, k, Len(s))

RECURSIVE SortDesc(_, _)
SortDesc(Gt(_, _), s) ==
    IF s = <<>> THEN <<>>
    ELSE InsertDesc(Gt, s[Len(s)], SortDesc(Gt, SubSeq(s, 1, Len(s) - 1)))

(***************************************************************************)
(* hashlib.sha1(s.encode()).hexdigest()[:12], tabulated on the strings     *)
(* the model hashes.                                                       *)
(***************************************************************************)
Sha1Hex12(s) ==
    CASE s = <<"a", "t", " ", "f">>
          -> <<"f", "f", "d", "8", "1", "1", "8", "f", "c", "2", "f", "c">>
      [] s = <<"a", "t", " ", "g">>
          -> <<"a", "a", "f", "f", "8", "3", "b", "a", "0", "c", "4", "6">>
      [] s = <<"a", "t", " ", "h">>
          -> <<"3", "5", "0", "9", "f", "c", "0", "8", "0", "5", "1", "7">>
      [] s = <<"m", "s", "g", "=">>
          -> <<"d", "6", "a", "4", "5", "c", "8", "c", "8", "d", "c", "d">>
      [] s = <<"m", "s", "g", "=", "d", "b", " ", "d", "o", "w", "n">>
          -> <<"e", "f", "0", "a", "9", "8", "4", "d", "3", "4", "b", "a">>
      [] s = <<"m", "s", "g", "=", "e", "r", "r", " ", "<", "n", "u", "m", ">">>
          -> <<"c", "7", "1", "2", "d", "5", "5", "f", "b", "e", "a", "b">>
      [] s = <<"m", "s", "g", "=", "b", "o", "o", "m", " ", "<", "n", "u", "m", ">">>
          -> <<"a", "0", "1", "5", "2", "5", "6", "8", "f", "b", "d", "0">>
      [] s = <<"m", "s", "g", "=", "s", "i", "g", " ", "a", " ", "d", "o", "w", "n">>
          -> <<"a", "f", "2", "9", "6", "e", "6", "d", "f", "f", "f", "b">>
      [] s = <<"m", "s", "g", "=", "s", "i", "g", " ", "b", " ", "d", "o", "w", "n">>
          -> <<"f", "f", "c", "e", "d", "5", "e", "0", "6", "b", "d", "e">>
      [] s = <<"m", "s", "g", "=", "s", "i", "g", " ", "c", " ", "d", "o", "w", "n">>
          -> <<"0", "1", "0", "c", "b", "d", "7", "a", "e", "1", "1", "3">>
      [] s = <<"m", "s", "g", "=", "s", "i", "g", " ", "d", " ", "d", "o", "w", "n">>
          -> <<"5", "7", "6", "3", "7", "d", "3", "2", "7", "5", "8", "3">>
      [] s = <<"m", "s", "g", "=", "s", "i", "g", " ", "e", " ", "d", "o", "w", "n">>
          -> <<"7", "3", "5", "3", "3", "2", "2", "a", "7", "4", "d", "2">>
      [] s = <<"m", "s", "g", "=", "s", "i", "g", " ", "f", " ", "d", "o", "w", "n">>
          -> <<"a", "5", "1", "5", "b", "9", "a", "3", "e", "b", "2", "a">>
      [] s = <<"m", "s", "g", "=", "s", "i", "g", " ", "g", " ", "d", "o", "w", "n">>
          -> <<"3", "5", "7", "a", "1", "d", "b", "9", "b", "c", "7", "2">>
      [] s = <<"m", "s", "g", "=", "s", "i", "g", " ", "h", " ", "d", "o", "w", "n">>
          -> <<"c", "2", "d", "d", "f", "d", "3", "d", "d", "b", "5", "9">>
      [] s = <<"m", "s", "g", "=", "s", "i", "g", " ", "i", " ", "d", "o", "w", "n">>
          -> <<"c", "a", "c", "0", "8", "c", "a", "8", "2", "d", "5", "2">>
      [] s = <<"m", "s", "g", "=", "s", "i", "g", " ", "j", " ", "d", "o", "w", "n">>
          -> <<"c", "c", "b", "6", "2", "c", "e", "3", "8", "0", "8", "4">>
      [] s = <<"m", "s", "g", "=", "s", "i", "g", " ", "k", " ", "d", "o", "w", "n">>
          -> <<"7", "d", "c", "d", "2", "6", "c", "4", "7", "5", "a", "3">>
      [] s = <<"m", "s", "g", "=", "s", "i", "g", " ", "l", " ", "d", "o", "w", "n">>
          -> <<"5", "3", "d", "e", "c", "4", "0", "6", "4", "7", "3", "a">>
      [] s = <<"m", "s", "g", "=", "r", "g", "n", "u", "h", "l", "q", "i", "p", "s", "t", "l">>
          -> <<"b", "b", "c", "6", "e", "f", "4", "a", "7", "c", "0", "e">>
      [] s = <<"m", "s", "g", "=", "r", "u", "u", "h", "q", "m", "h", "m", "p", "p", "o", "j">>
          -> <<"b", "b", "c", "6", "e", "f", "4", "a", "7", "c", "0", "e">>
      [] s = <<"t", "y", "p", "e", "=", "I", "O", "E", "r", "r", "o", "r", " ", "|", " ", "m", "s", "g", "=">>
          -> <<"2", "c", "8", "9", "a", "d", "4", "2", "f", "8", "d", "9">>
      [] s = <<"t", "y", "p", "e", "=", "K", "e", "y", "E", "r", "r", "o", "r", " ", "|", " ", "m", "s", "g", "=">>
          -> <<"3", "a", "0", "3", "7", "8", "0", "b", "9", "0", "4", "3">>
      [] s = <<"m", "s", "g", "=", " ", "|", " ", "s", "t", "a", "c", "k", "=", "3", "5", "0", "9", "f", "c", "0", "8", "0", "5", "1", "7">>
          -> <<"d", "1", "3", "8", "d", "d", "f", "4", "4", "e", "d", "2">>
      [] s = <<"m", "s", "g", "=", " ", "|", " ", "s", "t", "a", "c", "k", "=", "f", "f", "d", "8", "1", "1", "8", "f", "c", "2", "f", "c">>
          -> <<"2", "e", "0", "5", "e", "1", "3", "e", "6", "b", "2", "4">>
      [] s = <<"t", "y", "p", "e", "=", "I", "O", "E", "r", "r", "o", "r", " ", "|", " ", "m", "s", "g", "=", "d", "b", " ", "d", "o", "w", "n">>
          -> <<"c", "0", "b", "6", "d", "9", "7", "7", "b", "0", "0", "8">>
      [] s = <<"t", "y", "p", "e", "=", "K", "e", "y", "E", "r", "r", "o", "r", " ", "|", " ", "m", "s", "g", "=", "d", "b", " ", "d", "o", "w", "n">>
          -> <<"5", "2", "7", "e", "1", "b", "f", "7", "7", "4", "a", "b">>
      [] s = <<"t", "y", "p", "e", "=", "I", "O", "E", "r", "r", "o", "r", " ", "|", " ", "m", "s", "g", "=", "e", "r", "r", " ", "<", "n", "u", "m", ">">>
          -> <<"6", "3", "7", "2", "4", "6", "7", "e", "e", "0", "a", "7">>
      [] s = <<"t", "y", "p", "e", "=", "I", "O", "E", "r", "r", "o", "r", " ", "|", " ", "m", "s", "g", "=", "b", "o", "o", "m", " ", "<", "n", "u", "m", ">">>
          -> <<"6", "3", "2", "d", "6", "1", "c", "c", "b", "d", "6", "6">>
      [] s = <<"t", "y", "p", "e", "=", "K", "e", "y", "E", "r", "r", "o", "r", " ", "|", " ", "m", "s", "g", "=", "e", "r", "r", " ", "<", "n", "u", "m", ">">>
          -> <<"d", "8", "8", "7", "e", "6", "1", "9", "3", "9", "0", "b">>
      [] s = <<"t", "y", "p", "e", "=", "K", "e", "y", "E", "r", "r", "o", "r", " ", "|", " ", "m", "s", "g", "=", "b", "o", "o", "m", " ", "<", "n", "u", "m", ">">>
          -> <<"3", "0", "b", "d", "6", "c", "d", "a", "d", "a", "5", "6">>
      [] s = <<"m", "s", "g", "=", "d", "b", " ", "d", "o", "w", "n", " ", "|", " ", "s", "t", "a", "c", "k", "=", "3", "5", "0", "9", "f", "c", "0", "8", "0", "5", "1", "7">>
          -> <<"a", "2", "1", "a", "4", "c", "1", "9", "e", "c", "9", "4">>
      [] s = <<"m", "s", "g", "=", "d", "b", " ", "d", "o", "w", "n", " ", "|", " ", "s", "t", "a", "c", "k", "=", "f", "f", "d", "8", "1", "1", "8", "f", "c", "2", "f", "c">>
          -> <<"a", "f", "d", "0", "4", "f", "8", "8", "d", "7", "d", "7">>
      [] s = <<"m", "s", "g", "=", "e", "r", "r", " ", "<", "n", "u", "m", ">", " ", "|", " ", "s", "t", "a", "c", "k", "=", "3", "5", "0", "9", "f", "c", "0", "8", "0", "5", "1", "7">>
          -> <<"6", "f", "c", "d", "9", "2", "6", "b", "7", "d", "2", "8">>
      [] s = <<"m", "s", "g", "=", "e", "r", "r", " ", "<", "n", "u", "m", ">", " ", "|", " ", "s", "t", "a", "c", "k", "=", "f", "f", "d", "8", "1", "1", "8", "f", "c", "2", "f", "c">>
          -> <<"a", "f", "7", "0", "d", "3", "6", "a", "0", "e", "1", "b">>
      [] s = <<"m", "s", "g", "=", "b", "o", "o", "m", " ", "<", "n", "u", "m", ">", " ", "|", " ", "s", "t", "a", "c", "k", "=", "3", "5", "0", "9", "f", "c", "0", "8", "0", "5", "1", "7">>
          -> <<"3", "3", "4", "e", "9", "d", "5", "d", "a", "5", "c", "6">>
      [] s = <<"m", "s", "g", "=", "b", "o", "o", "m", " ", "<", "n", "u", "m", ">", " ", "|", " ", "s", "t", "a", "c", "k", "=", "f", "f", "d", "8", "1", "1", "8", "f", "c", "2", "f", "c">>
          -> <<"1", "e", "3", "5", "3", "c", "d", "a", "b", "b", "2", "f">>
      [] s = <<"t", "y", "p", "e", "=", "I", "O", "E", "r", "r", "o", "r", " ", "|", " ", "m", "s", "g", "=", " ", "|", " ", "s", "t", "a", "c", "k", "=", "3", "5", "0", "9", "f", "c", "0", "8", "0", "5", "1", "7">>
          -> <<"8", "7", "8", "d", "6", "1", "5", "5", "f", "6", "4", "2">>
      [] s = <<"t", "y", "p", "e", "=", "I", "O", "E", "r", "r", "o", "r", " ", "|", " ", "m", "s", "g", "=", " ", "|", " ", "s", "t", "a", "c", "k", "=", "f", "f", "d", "8", "1", "1", "8", "f", "c", "2", "f", "c">>
          -> <<"d", "b", "c", "d", "9", "1", "b", "e", "f", "9", "3", "8">>
      [] s = <<"t", "y", "p", "e", "=", "K", "e", "y", "E", "r", "r", "o", "r", " ", "|", " ", "m", "s", "g", "=", " ", "|", " ", "s", "t", "a", "c", "k", "=", "3", "5", "0", "9", "f", "c", "0", "8", "0", "5", "1", "7">>
          -> <<"8", "5", "a", "1", "2", "5", "4", "4", "e", "a", "9", "b">>
      [] s = <<"t", "y", "p", "e", "=", "K", "e", "y", "E", "r", "r", "o", "r", " ", "|", " ", "m", "s", "g", "=", " ", "|", " ", "s", "t", "a", "c", "k", "=", "f", "f", "d", "8", "1", "1", "8", "f", "c", "2", "f", "c">>
          -> <<"c", "8", "f", "f", "7", "8", "2", "2", "1", "f", "2", "f">>
      [] s = <<"t", "y", "p", "e", "=", "E", "9", " ", "|", " ", "m", "s", "g", "=", "b", "a", "d", " ", "<", "n", "u", "m", ">", " ", "|", " ", "s", "t", "a", "c", "k", "=", "a", "a", "f", "f", "8", "3", "b", "a", "0", "c", "4", "6">>
          -> <<"1", "1", "2", "c", "f", "a", "f", "8", "4", "d", "4", "9">>
      [] s = <<"t", "y", "p", "e", "=", "E", "9", " ", "|", " ", "m", "s", "g", "=", "b", "a", "d", " ", "<", "n", "u", "m", ">", " ", "|", " ", "s", "t", "a", "c", "k", "=", "f", "f", "d", "8", "1", "1", "8", "f", "c", "2", "f", "c">>
          -> <<"8", "2", "9", "7", "a", "e", "6", "f", "3", "f", "9", "3">>
      [] s = <<"t", "y", "p", "e", "=", "E", "9", " ", "|", " ", "m", "s", "g", "=", "b", "o", "o", "m", " ", "<", "n", "u", "m", ">", " ", "|", " ", "s", "t", "a", "c", "k", "=", "a", "a", "f", "f", "8", "3", "b", "a", "0", "c", "4", "6">>
          -> <<"5", "6", "e", "d", "a", "0", "8", "6", "8", "e", "d", "0">>
      [] s = <<"t", "y", "p", "e", "=", "E", "9", " ", "|", " ", "m", "s", "g", "=", "b", "o", "o", "m", " ", "<", "n", "u", "m", ">", " ", "|", " ", "s", "t", "a", "c", "k", "=", "f", "f", "d", "8", "1", "1", "8", "f", "c", "2", "f", "c">>
          -> <<"9", "3", "2", "3", "1", "f", "5", "2", "f", "d", "8", "4">>
      [] s = <<"t", "y", "p", "e", "=", "I", "O", "E", "r", "r", "o", "r", " ", "|", " ", "m", "s", "g", "=", "d", "b", " ", "d", "o", "w", "n", " ", "|", " ", "s", "t", "a", "c", "k", "=", "3", "5", "0", "9", "f", "c", "0", "8", "0", "5", "1", "7">>
          -> <<"b", "3", "c", "0", "c", "a", "3", "4", "6", "1", "4", "7">>
      [] s = <<"t", "y", "p", "e", "=", "I", "O", "E", "r", "r", "o", "r", " ", "|", " ", "m", "s", "g", "=", "d", "b", " ", "d", "o", "w", "n", " ", "|", " ", "s", "t", "a", "c", "k", "=", "f", "f", "d", "8", "1", "1", "8", "f", "c", "2", "f", "c">>
          -> <<"1", "d", "4", "f", "8", "2", "3", "3", "d", "c", "a", "7">>
      [] s = <<"t", "y", "p", "e", "=", "K", "e", "y", "E", "r", "r", "o", "r", " ", "|", " ", "m", "s", "g", "=", "d", "b", " ", "d", "o", "w", "n", " ", "|", " ", "s", "t", "a", "c", "k", "=", "3", "5", "0", "9", "f", "c", "0", "8", "0", "5", "1", "7">>
          -> <<"b", "e", "8", "9", "c", "3", "5", "d", "2", "e", "8", "0">>
      [] s = <<"t", "y", "p", "e", "=", "K", "e", "y", "E", "r", "r", "o", "r", " ", "|", " ", "m", "s", "g", "=", "d", "b", " ", "d", "o", "w", "n", " ", "|", " ", "s", "t", "a", "c", "k", "=", "f", "f", "d", "8", "1", "1", "8", "f", "c", "2", "f", "c">>
          -> <<"9", "a", "5", "c", "f", "3", "3", "b", "c", "1", "a", "1">>
      [] s = <<"t", "y", "p", "e", "=", "I", "O", "E", "r", "r", "o", "r", " ", "|", " ", "m", "s", "g", "=", "b", "a", "d", " ", "<", "n", "u", "m", ">", " ", "|", " ", "s", "t", "a", "c", "k", "=", "a", "a", "f", "f", "8", "3", "b", "a", "0", "c", "4", "6">>
          -> <<"2", "2", "5", "e", "f", "e", "2", "0", "7", "e", "e", "c">>
      [] s = <<"t", "y", "p", "e", "=", "I", "O", "E", "r", "r", "o", "r", " ", "|", " ", "m", "s", "g", "=", "b", "a", "d", " ", "<", "n", "u", "m", ">", " ", "|", " ", "s", "t", "a", "c", "k", "=", "f", "f", "d", "8", "1", "1", "8", "f", "c", "2", "f", "c">>
          -> <<"0", "f", "2", "a", "4", "3", "d", "8", "8", "1", "5", "e">>
      [] s = <<"t", "y", "p", "e", "=", "I", "O", "E", "r", "r", "o", "r", " ", "|", " ", "m", "s", "g", "=", "e", "r", "r", " ", "<", "n", "u", "m", ">", " ", "|", " ", "s", "t", "a", "c", "k", "=", "3", "5", "0", "9", "f", "c", "0", "8", "0", "5", "1", "7">>
          -> <<"1", "8", "7", "1", "7", "6", "a", "4", "b", "4", "e", "8">>
      [] s = <<"t", "y", "p", "e", "=", "I", "O", "E", "r", "r", "o", "r", " ", "|", " ", "m", "s", "g", "=", "e", "r", "r", " ", "<", "n", "u", "m", ">", " ", "|", " ", "s", "t", "a", "c", "k", "=", "f", "f", "d", "8", "1", "1", "8", "f", "c", "2", "f", "c">>
          -> <<"c", "6", "d", "e", "7", "b", "3", "c", "8", "c", "c", "2">>
      [] s = <<"t", "y", "p", "e", "=", "I", "O", "E", "r", "r", "o", "r", " ", "|", " ", "m", "s", "g", "=", "b", "o", "o", "m", " ", "<", "n", "u", "m", ">", " ", "|", " ", "s", "t", "a", "c", "k", "=", "3", "5", "0", "9", "f", "c", "0", "8", "0", "5", "1", "7">>
          -> <<"4", "5", "a", "9", "b", "5", "d", "4", "5", "a", "b", "c">>
      [] s = <<"t", "y", "p", "e", "=", "I", "O", "E", "r", "r", "o", "r", " ", "|", " ", "m", "s", "g", "=", "b", "o", "o", "m", " ", "<", "n", "u", "m", ">", " ", "|", " ", "s", "t", "a", "c", "k", "=", "a", "a", "f", "f", "8", "3", "b", "a", "0", "c", "4", "6">>
          -> <<"1", "b", "b", "c", "5", "6", "d", "f", "7", "e", "b", "a">>
      [] s = <<"t", "y", "p", "e", "=", "I", "O", "E", "r", "r", "o", "r", " ", "|", " ", "m", "s", "g", "=", "b", "o", "o", "m", " ", "<", "n", "u", "m", ">", " ", "|", " ", "s", "t", "a", "c", "k", "=", "f", "f", "d", "8", "1", "1", "8", "f", "c", "2", "f", "c">>
          -> <<"5", "d", "d", "e", "b", "0", "5", "a", "3", "1", "9", "7">>
      [] s = <<"t", "y", "p", "e", "=", "K", "e", "y", "E", "r", "r", "o", "r", " ", "|", " ", "m", "s", "g", "=", "e", "r", "r", " ", "<", "n", "u", "m", ">", " ", "|", " ", "s", "t", "a", "c", "k", "=", "3", "5", "0", "9", "f", "c", "0", "8", "0", "5", "1", "7">>
          -> <<"b", "8", "2", "2", "8", "c", "1", "9", "3", "d", "a", "3">>
      [] s = <<"t", "y", "p", "e", "=", "K", "e", "y", "E", "r", "r", "o", "r", " ", "|", " ", "m", "s", "g", "=", "e", "r", "r", " ", "<", "n", "u", "m", ">", " ", "|", " ", "s", "t", "a", "c", "k", "=", "f", "f", "d", "8", "1", "1", "8", "f", "c", "2", "f", "c">>
          -> <<"c", "3", "9", "a", "6", "9", "a", "a", "8", "4", "5", "e">>
      [] s = <<"t", "y", "p", "e", "=", "K", "e", "y", "E", "r", "r", "o", "r", " ", "|", " ", "m", "s", "g", "=", "b", "o", "o", "m", " ", "<", "n", "u", "m", ">", " ", "|", " ", "s", "t", "a", "c", "k", "=", "3", "5", "0", "9", "f", "c", "0", "8", "0", "5", "1", "7">>
          -> <<"5", "8", "7", "c", "0", "9", "b", "5", "c", "d", "7", "1">>
      [] s = <<"t", "y", "p", "e", "=", "K", "e", "y", "E", "r", "r", "o", "r", " ", "|", " ", "m", "s", "g", "=", "b", "o", "o", "m", " ", "<", "n", "u", "m", ">", " ", "|", " ", "s", "t", "a", "c", "k", "=", "f", "f", "d", "8", "1", "1", "8", "f", "c", "2", "f", "c">>
          -> <<"9", "4", "a", "7", "1", "0", "6", "c", "f", "6", "7", "0">>
      [] s = <<"m", "s", "g", "=">> \o [i \in 1..496 |-> "b"]
          -> <<"1", "4", "c", "c", "1", "4", "5", "e", "b", "6", "8", "f">>
      [] s = <<"t", "y", "p", "e", "=", "I", "O", "E", "r", "r", "o", "r", " ", "|", " ", "m", "s", "g", "=">> \o [i \in 1..481 |-> "b"]
          -> <<"a", "8", "9", "d", "d", "5", "d", "8", "a", "f", "2", "f">>
      [] s = <<"t", "y", "p", "e", "=", "K", "e", "y", "E", "r", "r", "o", "r", " ", "|", " ", "m", "s", "g", "=">> \o [i \in 1..480 |-> "b"]
          -> <<"4", "a", "4", "9", "4", "5", "4", "9", "6", "4", "a", "9">>

(***************************************************************************)
(* Log records: the attributes of a log item.  error is the value of the   *)
(* key "error": absent, a str, or a dict with the keys type, message and   *)
(* stack.                                                                  *)
(***************************************************************************)
NoError == [kind |-> "none", value |-> NoneStr, type |-> NoneStr,
            message |-> NoneStr, stack |-> NoneStr]

ErrorStr(v) == [kind |-> "str", value |-> v, type |-> NoneStr,
                message |-> NoneStr, stack |-> NoneStr]

ErrorDict(t, m, s) == [kind |-> "dict", value |-> NoneStr, type |-> t,
                       message |-> m, stack |-> s]

\* a log that carries a message and a timestamp only
PlainLog(m, ts) ==
    [message |-> m, msg |-> NoneStr, error_type |-> NoneStr,
     error_message |-> NoneStr, error_stack |-> NoneStr, error |-> NoError,
     exception |-> NoneStr, stack_trace |-> NoneStr, timestamp |-> ts]

LongMsg == [i \in 1..510 |-> "b"]

Messages == {NoneStr, <<"e", "r", "r", " ", "1">>, LongMsg}

Msgs == {NoneStr, <<"d", "b", " ", "d", "o", "w", "n">>}

FlatTypes == {NoneStr, <<"I", "O", "E", "r", "r", "o", "r">>}

FlatMessages == {NoneStr, <<"b", "o", "o", "m", " ", "7">>}

FlatStacks == {NoneStr, <<"a", "t", " ", "f">>}

Exceptions == {NoneStr, <<"K", "e", "y", "E", "r", "r", "o", "r">>}

StackTraces == {NoneStr, <<"a", "t", " ", "h">>, <<" ">>}

NestedErrors ==
    {NoError,
     ErrorStr(<<"o", "o", "p", "s">>),
     ErrorDict(NoneStr, NoneStr, NoneStr),
     ErrorDict(<<"E", "9">>, <<"b", "a", "d", " ", "9">>, <<"a", "t", " ", "g">>)}

CoreLogs ==
    {PlainLog(<<"e", "r", "r", " ", "1">>, <<"2", "0", "2", "5", "-", "0", "1", "-", "0", "1", "T", "0", "0", ":", "0", "1", ":", "0", "0", "Z">>),
     PlainLog(<<"e", "r", "r", " ", "2">>, <<"2", "0", "2", "5", "-", "0", "1", "-", "0", "1", "T", "0", "0", ":", "0", "0", ":", "0", "0", "Z">>),
     PlainLog(<<"d", "b", " ", "d", "o", "w", "n">>, NoneStr),
     PlainLog(<<"r", "g", "n", "u", "h", "l", "q", "i", "p", "s", "t", "l">>, <<"2", "0", "2", "5", "-", "0", "1", "-", "0", "1", "T", "0", "0", ":", "0", "2", ":", "0", "0", "Z">>),
     PlainLog(<<"r", "u", "u", "h", "q", "m", "h", "m", "p", "p", "o", "j">>, <<"2", "0", "2", "5", "-", "0", "1", "-", "0", "1", "T", "0", "0", ":", "0", "3", ":", "0", "0", "Z">>)}

BigLogs ==
    <<PlainLog(<<"s", "i", "g", " ", "a", " ", "d", "o", "w", "n">>, NoneStr),
      PlainLog(<<"s", "i", "g", " ", "b", " ", "d", "o", "w", "n">>, NoneStr),
      PlainLog(<<"s", "i", "g", " ", "c", " ", "d", "o", "w", "n">>, NoneStr),
      PlainLog(<<"s", "i", "g", " ", "d", " ", "d", "o", "w", "n">>, NoneStr),
      PlainLog(<<"s", "i", "g", " ", "e", " ", "d", "o", "w", "n">>, NoneStr),
      PlainLog(<<"s", "i", "g", " ", "f", " ", "d", "o", "w", "n">>, NoneStr),
      PlainLog(<<"s", "i", "g", " ", "g", " ", "d", "o", "w", "n">>, NoneStr),
      PlainLog(<<"s", "i", "g", " ", "h", " ", "d", "o", "w", "n">>, NoneStr),
      PlainLog(<<"s", "i", "g", " ", "i", " ", "d", "o", "w", "n">>, NoneStr),
      PlainLog(<<"s", "i", "g", " ", "j", " ", "d", "o", "w", "n">>, NoneStr),
      PlainLog(<<"s", "i", "g", " ", "k", " ", "d", "o", "w", "n">>, NoneStr),
      PlainLog(<<"s", "i", "g", " ", "l", " ", "d", "o", "w", "n">>, NoneStr)>>


\* every combination of the message and error fields
AllLogs ==
    [message : Messages, msg : Msgs, error_type : FlatTypes,
     error_message : FlatMessages, error_stack : FlatStacks,
     error : NestedErrors, exception : Exceptions,
     stack_trace : StackTraces, timestamp : {NoneStr}]

RECURSIVE SeqsUpTo(_, _)
SeqsUpTo(S, n) ==
    IF n = 0 THEN {<<>>}
    ELSE LET shorter == SeqsUpTo(S, n - 1)
         IN  shorter \cup {Append(s, x) : s \in shorter, x \in S}

(***************************************************************************)
(* cluster_logs                                                            *)
(***************************************************************************)
\* the message of a record (logs.py line 56)
raw_message(attrs) == Or(Or(attrs.message, attrs.msg), <<>>)

\* logs.py lines 62-64: a conditional expression binds weaker than "or",
\* so each line reads (flat or nested) if isinstance(error, dict) else None
err_field(attrs, flat, nested) ==
    IF attrs.error.kind = "dict" THEN Or(flat, nested) ELSE NoneStr

err_type(attrs) ==
    LET t == err_field(attrs, attrs.error_type, attrs.error.type)
    IN  IF ~Truthy(t) /\ IsStr(attrs.exception) THEN attrs.exception ELSE t

err_msg(attrs) == err_field(attrs, attrs.error_message, attrs.error.message)

err_stack(attrs) ==
    LET s == err_field(attrs, attrs.error_stack, attrs.error.stack)
    IN  IF ~Truthy(s) /\ IsStr(attrs.stack_trace) THEN attrs.stack_trace ELSE s

\* hashlib.sha1(err_stack...).hexdigest()[:12], None without a stack
hash_stack(s) == IF IsStr(s) /\ Strip(s) # <<>> THEN Sha1Hex12(s) ELSE NoneStr

stack_hash(attrs) == hash_stack(err_stack(attrs))

TypePrefix == <<"t", "y", "p", "e", "=">>

MsgPrefix == <<"m", "s", "g", "=">>

StackPrefix == <<"s", "t", "a", "c", "k", "=">>

\* " | ".join(parts)
RECURSIVE Join(_)
Join(parts) ==
    IF Len(parts) = 0 THEN <<>>
    ELSE IF Len(parts) = 1 THEN parts[1]
    ELSE parts[1] \o <<" ", "|", " ">> \o Join(Tail(parts))

MaxTemplateLen == 500

type_part(t) ==
    IF Truthy(t) THEN <<TypePrefix \o normalize_message(safe_str(t))>> ELSE <<>>

\* msg= of the error message when there is one, of the raw message otherwise
msg_part(m, raw) ==
    <<MsgPrefix \o normalize_message(safe_str(IF Truthy(m) THEN m ELSE raw))>>

stack_part(h) == IF h # NoneStr THEN <<StackPrefix \o h>> ELSE <<>>

template_parts(attrs) ==
    type_part(err_type(attrs))
    \o msg_part(err_msg(attrs), raw_message(attrs))
    \o stack_part(stack_hash(attrs))

\* the template of a record (logs.py lines 71-85)
template(attrs) == Take(Join(template_parts(attrs)), MaxTemplateLen)

fingerprint(t) == Sha1Hex12(t)

\* _log_timestamp_iso
log_timestamp_iso(attrs) ==
    IF Truthy(attrs.timestamp) THEN attrs.timestamp ELSE NoneStr

\* the code points of the characters of a timestamp
CharOrd(c) ==
    CASE c = "-" -> 45
      [] c = "0" -> 48 [] c = "1" -> 49 [] c = "2" -> 50 [] c = "3" -> 51
      [] c = "4" -> 52 [] c = "5" -> 53 [] c = "6" -> 54 [] c = "7" -> 55
      [] c = "8" -> 56 [] c = "9" -> 57
      [] c = ":" -> 58 [] c = "T" -> 84 [] c = "Z" -> 90

\* a < b of two str
StrLess(a, b) ==
    \E k \in 1..(Len(b)) :
        /\ \A j \in 1..(k - 1) : j <= Len(a) /\ a[j] = b[j]
        /\ k > Len(a) \/ CharOrd(a[k]) < CharOrd(b[k])

\* the index of the cluster of fingerprint fp in a cluster map, 0 if none
IndexOf(clusters_, fp) ==
    IF \E i \in 1..Len(clusters_) : clusters_[i].fingerprint = fp
    THEN CHOOSE i \in 1..Len(clusters_) : clusters_[i].fingerprint = fp
    ELSE 0

ensure_cluster_CountsFirst(clusters_, fp, tpl, ts) ==
    IF IndexOf(clusters_, fp) # 0 THEN clusters_
    ELSE Append(clusters_,
                [fingerprint |-> fp, template |-> tpl, count_incident |-> 1,
                 count_baseline |-> 0, first_seen |-> ts])

\* the cluster of fingerprint fp, created when fp is new (lines 90-108)
ensure_cluster(clusters_, fp, tpl, ts) ==
    IF IndexOf(clusters_, fp) # 0 THEN clusters_
    ELSE Append(clusters_,
                [fingerprint |-> fp, template |-> tpl, count_incident |-> 0,
                 count_baseline |-> 0, first_seen |-> ts])

\* lines 112-113
first_seen_after(seen, ts) ==
    IF Truthy(ts) /\ (seen = NoneStr \/ StrLess(ts, seen)) THEN ts ELSE seen

count_at_OnlyFirst(clusters_, i, ts) ==
    [clusters_ EXCEPT ![i].count_incident = IF @ = 0 THEN 1 ELSE @,
                      ![i].first_seen = first_seen_after(@, ts)]

\* lines 110-113 on the cluster at index i
count_at(clusters_, i, ts) ==
    [clusters_ EXCEPT ![i].count_incident = @ + 1,
                      ![i].first_seen = first_seen_after(@, ts)]

count_in(clusters_, fp, ts) == count_at(clusters_, IndexOf(clusters_, fp), ts)

count_record(clusters_, fp, tpl, ts) ==
    count_in(ensure_cluster(clusters_, fp, tpl, ts), fp, ts)

count_template(clusters_, tpl, ts) ==
    count_record(clusters_, fingerprint(tpl), tpl, ts)

\* one turn of the loop of cluster_logs (logs.py lines 55-113)
cluster_one(clusters_, attrs) ==
    count_template(clusters_, template(attrs), log_timestamp_iso(attrs))

RECURSIVE cluster_from(_, _, _)
cluster_from(clusters_, logs, i) ==
    IF i > Len(logs) THEN clusters_
    ELSE cluster_from(cluster_one(clusters_, logs[i]), logs, i + 1)

cluster_logs(logs) == cluster_from(<<>>, logs, 1)

(***************************************************************************)
(* merge_baseline_counts                                                   *)
(***************************************************************************)
merged_ReadsCountBaseline(c, baseline_clusters, b) ==
    IF b # 0
    THEN [c EXCEPT !.count_baseline = baseline_clusters[b].count_baseline]
    ELSE c

\* lines 123-124 for one incident cluster; b is the index of the baseline
\* cluster of the same fingerprint, 0 if there is none
merged(c, baseline_clusters, b) ==
    IF b # 0
    THEN [c EXCEPT !.count_baseline = baseline_clusters[b].count_incident]
    ELSE c

merge_clusters(incident_clusters, baseline_clusters) ==
    [i \in 1..Len(incident_clusters) |->
        merged(incident_clusters[i], baseline_clusters,
               IndexOf(baseline_clusters, incident_clusters[i].fingerprint))]

merge_baseline_counts(incident_clusters, logs) ==
    merge_clusters(incident_clusters, cluster_logs(logs))

(***************************************************************************)
(* rank_clusters                                                           *)
(***************************************************************************)
NewSignatureRatio == 9999

\* the sort key of rank_clusters: <<ratio, count_incident>>
rank_key(c) ==
    <<IF c.count_baseline = 0 /\ c.count_incident > 0
      THEN RInt(NewSignatureRatio)
      ELSE IF c.count_baseline > 0
           THEN Rat(c.count_incident, c.count_baseline)
           ELSE RZero,
      c.count_incident>>

\* the order of the key tuples
RankGt(x, y) ==
    LET kx == rank_key(x)
        ky == rank_key(y)
    IN  RLess(ky[1], kx[1]) \/ (kx[1] = ky[1] /\ kx[2] > ky[2])

rank_clusters(clusters_, limit) == Take(SortDesc(RankGt, clusters_), limit)

(***************************************************************************)
(* score_log_clusters                                                      *)
(***************************************************************************)
clamp01(x) ==
    IF RLess(x, RZero) THEN RZero
    ELSE IF RLess(RInt(1), x) THEN RInt(1) ELSE x

log_score_NoCap(c) ==
    IF c.count_baseline = 0 /\ c.count_incident > 0
    THEN RAdd(Rat(9, 10), RMin(Rat(1, 10), Rat(c.count_incident, 200)))
    ELSE IF c.count_baseline > 0
         THEN RMax(RZero,
                   RDiv(RSub(Rat(c.count_incident, c.count_baseline), RInt(1)),
                        RInt(5)))
         ELSE RZero

\* the score of one cluster (scoring.py lines 22-28)
log_score(c) ==
    IF c.count_baseline = 0 /\ c.count_incident > 0
    THEN RAdd(Rat(9, 10), RMin(Rat(1, 10), Rat(c.count_incident, 200)))
    ELSE IF c.count_baseline > 0
         THEN RMin(Rat(9, 10),
                   RMax(RZero,
                        RDiv(RSub(Rat(c.count_incident, c.count_baseline), RInt(1)),
                             RInt(5))))
         ELSE RZero

ScoreGt(x, y) == RLess(y.score, x.score)

TitleLen == 120

LogTitle == <<"L", "o", "g", " ", "s", "i", "g", "n", "a", "t", "u", "r", "e", " ", "s", "p", "i", "k", "e", ":", " ">>

\* lines 29-41; key is evidence["fingerprint"], the other fields of the
\* evidence follow it
log_candidate(c) ==
    [kind |-> "logs", title |-> LogTitle \o Take(c.template, TitleLen),
     score |-> clamp01(log_score(c)),
     key |-> c.fingerprint, template |-> c.template,
     count_incident |-> c.count_incident, count_baseline |-> c.count_baseline,
     first_seen |-> c.first_seen]

score_log_clusters(clusters_, limit) ==
    LET firsts == Take(clusters_, limit)
    IN  SortDesc(ScoreGt, [i \in 1..Len(firsts) |-> log_candidate(firsts[i])])

(***************************************************************************)
(* Raw span records (analysis/apm.py).  A raw value carries its Python     *)
(* type: t is "none", "bool", "num" (int or float), "inf" (the float       *)
(* infinity) or "str"; v is the string, the rational <<n, d>>, or <<1, 1>> *)
(* / <<0, 1>> for True / False.  The attributes of a span are a function   *)
(* from the keys present to raw values, or a raw value when the record     *)
(* holds something else than a dict there (None, a number, a boolean); a   *)
(* raw item is [is_dict, attributes].  Of SpanView the fields timestamp,   *)
(* service and span_id are left out; error is "True", "False" or "None".   *)
(***************************************************************************)
PyNone == [t |-> "none", v |-> <<>>]

PyStr(s) == [t |-> "str", v |-> s]

PyNum(n, d) == [t |-> "num", v |-> Rat(n, d)]

PyBool(b) == [t |-> "bool", v |-> IF b THEN RInt(1) ELSE RZero]

PyInf == [t |-> "inf", v |-> <<>>]

\* the truth value of a raw value
PyTruthy(x) ==
    CASE x.t = "none" -> FALSE
      [] x.t \in {"num", "bool"} -> x.v # RZero
      [] x.t = "str" -> x.v # <<>>
      [] x.t = "inf" -> TRUE

\* the float infinity, as a duration
Infinity == <<1, 0>>

\* a string of decimal digits, and the number it denotes
IsNumeral(s) == s # <<>> /\ \A i \in 1..Len(s) : s[i] \in Digits

DigitValue(c) == CHOOSE d \in 0..9 : <<"0", "1", "2", "3", "4", "5", "6", "7", "8", "9">>[d + 1] = c

RECURSIVE NumeralValue(_)
NumeralValue(s) ==
    IF s = <<>> THEN 0
    ELSE 10 * NumeralValue(SubSeq(s, 1, Len(s) - 1)) + DigitValue(s[Len(s)])

\* apm.py lines 8-16 (str() of a number or a boolean is not modelled: the
\* string fields of the spans below are strings or None)
apm_safe_str(x) ==
    CASE x.t = "none" -> NoneStr
      [] x.t = "str" -> x.v

\* apm.py lines 28-34; of the strings float() accepts, the strings of
\* decimal digits are modelled
safe_float(x) ==
    CASE x.t = "none" -> NoneStr
      [] x.t = "num" -> x.v
      [] x.t = "bool" -> x.v
      [] x.t = "inf" -> Infinity
      [] x.t = "str" -> IF IsNumeral(x.v) THEN RInt(NumeralValue(x.v)) ELSE NoneStr

\* int(x) of a rational: truncation toward zero
Trunc(r) == IF r[1] >= 0 THEN r[1] \div r[2] ELSE -((-r[1]) \div r[2])

\* apm.py lines 19-25: int() truncates, and raises on the infinity
safe_int(x) ==
    CASE x.t = "none" -> NoneStr
      [] x.t \in {"num", "bool"} -> RInt(Trunc(x.v))
      [] x.t = "inf" -> NoneStr
      [] x.t = "str" -> IF IsNumeral(x.v) THEN RInt(NumeralValue(x.v)) ELSE NoneStr

RECURSIVE get_attr(_, _)
get_attr(attrs, keys) ==
    IF keys = <<>> THEN PyNone
    ELSE IF Head(keys) \in DOMAIN attrs THEN attrs[Head(keys)]
    ELSE get_attr(attrs, Tail(keys))

DurationUnitThreshold == 10000

NanosPerMilli == 1000000

duration_ms_AtThreshold(dur_f) ==
    IF dur_f = NoneStr THEN NoneStr
    ELSE IF RLeq(RInt(DurationUnitThreshold), dur_f)
         THEN RDiv(dur_f, RInt(NanosPerMilli))
         ELSE dur_f

\* lines 83-85
duration_ms(dur_f) ==
    IF dur_f = NoneStr THEN NoneStr
    ELSE IF RLess(RInt(DurationUnitThreshold), dur_f)
         THEN RDiv(dur_f, RInt(NanosPerMilli))
         ELSE dur_f

\* lines 87-92
span_error(raw_err) ==
    CASE raw_err.t = "bool" -> IF raw_err.v = RInt(1) THEN "True" ELSE "False"
      [] raw_err.t = "num" -> IF Trunc(raw_err.v) # 0 THEN "True" ELSE "False"
      [] raw_err.t \in {"none", "str"} -> "None"

\* the record holds no dict under "attributes"
IsRawValue(a) == DOMAIN a = {"t", "v"}

\* item.get("attributes") or {}
attributes_of(item) ==
    IF IsRawValue(item.attributes) /\ ~PyTruthy(item.attributes) THEN <<>>
    ELSE item.attributes

\* normalize_span raises: `k in attrs` of line 73 on a number or a boolean
\* (TypeError), int(raw_err) of line 92 on the infinity (OverflowError)
normalize_raises(item) ==
    \/ IsRawValue(attributes_of(item))
    \/ /\ ~IsRawValue(attributes_of(item))
       /\ get_attr(attributes_of(item), <<"error", "is_error">>).t = "inf"

span_view(attrs) ==
    [resource |-> apm_safe_str(get_attr(attrs, <<"resource", "resource_name">>)),
     name |-> apm_safe_str(get_attr(attrs, <<"name">>)),
     span_kind |-> apm_safe_str(get_attr(attrs, <<"span.kind", "span_kind", "span.kind">>)),
     span_type |-> apm_safe_str(get_attr(attrs, <<"span.type", "span_type", "type">>)),
     duration_ms |-> duration_ms(safe_float(get_attr(attrs, <<"duration", "duration_ns", "durationNano">>))),
     error |-> span_error(get_attr(attrs, <<"error", "is_error">>)),
     http_status |-> safe_int(get_attr(attrs, <<"http.status_code", "http.status_code", "http.status">>)),
     trace_id |-> apm_safe_str(get_attr(attrs, <<"trace_id", "trace.id">>)),
     peer_service |-> apm_safe_str(get_attr(attrs, <<"peer.service", "peer_service">>))]

normalize_span(item) == span_view(attributes_of(item))

\* sorted(values)
RAscending(x, y) == RLess(x, y)

Floor(r) == IF r[1] >= 0 THEN r[1] \div r[2] ELSE -((-r[1] + r[2] - 1) \div r[2])

Ceil(r) == -Floor(<<-r[1], r[2]>>)

RECURSIVE RSum(_)
RSum(s) == IF s = <<>> THEN RZero ELSE RAdd(Head(s), RSum(Tail(s)))

\* lines 46-52 on the sorted values xs with the fractional rank k
interpolate(xs, k) ==
    IF Floor(k) = Ceil(k) THEN xs[Floor(k) + 1]
    ELSE RAdd(RMul(xs[Floor(k) + 1], RSub(RInt(Ceil(k)), k)),
              RMul(xs[Ceil(k) + 1], RSub(k, RInt(Floor(k)))))

percentile_Unsorted(values, p) ==
    IF values = <<>> THEN NoneStr
    ELSE IF p <= 0 THEN SortDesc(RAscending, values)[1]
    ELSE IF p >= 100 THEN SortDesc(RAscending, values)[Len(values)]
    ELSE interpolate(values, Rat((Len(values) - 1) * p, 100))

\* apm.py lines 37-52
percentile(values, p) ==
    IF values = <<>> THEN NoneStr
    ELSE IF p <= 0 THEN SortDesc(RAscending, values)[1]
    ELSE IF p >= 100 THEN SortDesc(RAscending, values)[Len(values)]
    ELSE interpolate(SortDesc(RAscending, values), Rat((Len(values) - 1) * p, 100))

\* the keys of a grouping dict, in insertion order: the truthy keys at
\* their first occurrence (by_res.setdefault, by_dep.setdefault)
first_keys(keys) ==
    LET first(i) == Truthy(keys[i]) /\ \A j \in 1..(i - 1) : keys[j] # keys[i]
        at == SelectSeq([i \in 1..Len(keys) |-> i], first)
    IN  [n \in 1..Len(at) |-> keys[at[n]]]

\* the spans xs[i] with keys[i] = k, in order
members(xs, keys, k) ==
    LET member(i) == keys[i] = k
        at == SelectSeq([i \in 1..Len(keys) |-> i], member)
    IN  [n \in 1..Len(at) |-> xs[at[n]]]

HasDuration(x) == x.duration_ms # NoneStr

IsError(x) == x.error = "True"

HasTraceId(x) == Truthy(x.trace_id)

SampleTraceIds == 5

sample_trace_ids_NoLimit(xs) ==
    LET with == SelectSeq(xs, HasTraceId)
    IN  [i \in 1..Len(with) |-> with[i].trace_id]

\* lines 133 and 167
sample_trace_ids(xs) ==
    LET with == SelectSeq(xs, HasTraceId)
    IN  Take([i \in 1..Len(with) |-> with[i].trace_id], SampleTraceIds)

\* durs of lines 125 and 160
durations(xs) ==
    LET with == SelectSeq(xs, HasDuration)
    IN  [i \in 1..Len(with) |-> with[i].duration_ms]

\* lines 127-134 for the spans xs of one resource
endpoint_stats(res, xs, durs) ==
    [key |-> res,
     count |-> Len(xs),
     error_count |-> Len(SelectSeq(xs, IsError)),
     error_rate |-> Rat(Len(SelectSeq(xs, IsError)), Len(xs)),
     p50_ms |-> percentile(durs, 50),
     p95_ms |-> percentile(durs, 95),
     p99_ms |-> percentile(durs, 99),
     sample_trace_ids |-> sample_trace_ids(xs)]

resources(spans) == [i \in 1..Len(spans) |-> spans[i].resource]

endpoint_groups(spans, keys, firsts) ==
    [n \in 1..Len(firsts) |->
        endpoint_stats(firsts[n], members(spans, keys, firsts[n]),
                       durations(members(spans, keys, firsts[n])))]

\* a dict is the sequence of its items in insertion order
group_endpoint_stats(spans) ==
    endpoint_groups(spans, resources(spans), first_keys(resources(spans)))

PeerServicePrefix == <<"p", "e", "e", "r", "_", "s", "e", "r", "v", "i", "c", "e", ":">>

TypePrefixKey == <<"t", "y", "p", "e", ":">>

NamePrefix == <<"n", "a", "m", "e", ":">>

dependency_key_TypeFirst(span) ==
    IF Truthy(span.span_type) THEN TypePrefixKey \o span.span_type
    ELSE IF Truthy(span.peer_service) THEN PeerServicePrefix \o span.peer_service
    ELSE IF Truthy(span.name) THEN NamePrefix \o span.name
    ELSE NoneStr

\* apm.py lines 138-146
dependency_key(span) ==
    IF Truthy(span.peer_service) THEN PeerServicePrefix \o span.peer_service
    ELSE IF Truthy(span.span_type) THEN TypePrefixKey \o span.span_type
    ELSE IF Truthy(span.name) THEN NamePrefix \o span.name
    ELSE NoneStr

\* lines 162-168 for the spans xs of one dependency
dependency_stats(dep, xs, durs) ==
    [key |-> dep,
     count |-> Len(xs),
     error_count |-> Len(SelectSeq(xs, IsError)),
     error_rate |-> Rat(Len(SelectSeq(xs, IsError)), Len(xs)),
     total_duration_ms |-> IF durs # <<>> THEN RSum(durs) ELSE NoneStr,
     p95_ms |-> percentile(durs, 95),
     sample_trace_ids |-> sample_trace_ids(xs)]

dependency_keys(spans) == [i \in 1..Len(spans) |-> dependency_key(spans[i])]

dependency_groups(spans, keys, firsts) ==
    [n \in 1..Len(firsts) |->
        dependency_stats(firsts[n], members(spans, keys, firsts[n]),
                         durations(members(spans, keys, firsts[n])))]

group_dependency_stats(spans) ==
    dependency_groups(spans, dependency_keys(spans),
                      first_keys(dependency_keys(spans)))

(***************************************************************************)
(* _maybe_apm_attribution (pipeline.py lines 318-424).                     *)
(***************************************************************************)
UpperCase == <<"A", "B", "C", "D", "E", "F", "G", "H", "I", "J", "K", "L", "M", "N", "O", "P", "Q", "R", "S", "T", "U", "V", "W", "X", "Y", "Z">>

LowerCase == <<"a", "b", "c", "d", "e", "f", "g", "h", "i", "j", "k", "l", "m", "n", "o", "p", "q", "r", "s", "t", "u", "v", "w", "x", "y", "z">>

\* str.lower() on the ASCII letters
lower_char(c) ==
    IF \E i \in 1..Len(UpperCase) : UpperCase[i] = c
    THEN LowerCase[CHOOSE i \in 1..Len(UpperCase) : UpperCase[i] = c]
    ELSE c

lower(s) == [i \in 1..Len(s) |-> lower_char(s[i])]

ServerKind == <<"s", "e", "r", "v", "e", "r">>

ClientKind == <<"c", "l", "i", "e", "n", "t">>

IsDict(item) == item.is_dict

\* lines 336-337
normalized(raw) ==
    LET dicts == SelectSeq(raw, IsDict)
    IN  [i \in 1..Len(dicts) |-> normalize_span(dicts[i])]

\* lines 340-343
of_kind(spans, kind) ==
    LET is_kind(s) == lower(Or(s.span_kind, <<>>)) = kind
    IN  SelectSeq(spans, is_kind)

\* inc_server or inc_spans
list_or(xs, ys) == IF xs # <<>> THEN xs ELSE ys

group_index_SomeGroup(groups, key) ==
    IF \E i \in 1..Len(groups) : groups[i].key = key
    THEN CHOOSE i \in 1..Len(groups) : groups[i].key = key
    ELSE IF groups # <<>> THEN 1 ELSE 0

\* d.get(key) or {}: the index of the group of that key, 0 for {}
group_index(groups, key) ==
    IF \E i \in 1..Len(groups) : groups[i].key = key
    THEN CHOOSE i \in 1..Len(groups) : groups[i].key = key
    ELSE 0

\* x or 0.0
or_zero(x) == IF x = NoneStr THEN RZero ELSE x

endpoint_metric(mode_, stats) ==
    IF mode_ = "errors" THEN stats.error_rate ELSE stats.p95_ms

base_endpoint_metric(mode_, groups, b) ==
    IF b = 0 THEN NoneStr ELSE endpoint_metric(mode_, groups[b])

\* lines 354-366
endpoint_rows(mode_, endpoints_inc, endpoints_base) ==
    [i \in 1..Len(endpoints_inc) |->
        [delta |-> RSub(or_zero(endpoint_metric(mode_, endpoints_inc[i])),
                        or_zero(base_endpoint_metric(mode_, endpoints_base,
                                    group_index(endpoints_base, endpoints_inc[i].key)))),
         res |-> endpoints_inc[i].key]]

DeltaGt(x, y) == RLess(y.delta, x.delta)

TopEndpoints == 5

LatencyScale == 500

EndpointTitle == <<"E", "n", "d", "p", "o", "i", "n", "t", " ", "r", "e", "g", "r", "e", "s", "s", "i", "o", "n", ":", " ">>

endpoint_score_NoCap(mode_, delta) ==
    RMax(RZero, RDiv(delta, IF mode_ # "errors" THEN RInt(LatencyScale)
                                                 ELSE Rat(1, 2)))

\* line 370
endpoint_score(mode_, delta) ==
    RMin(Rat(95, 100),
         RMax(RZero, RDiv(delta, IF mode_ # "errors" THEN RInt(LatencyScale)
                                                      ELSE Rat(1, 2))))

endpoint_candidate(mode_, row) ==
    [kind |-> "endpoint", title |-> EndpointTitle \o row.res,
     score |-> endpoint_score(mode_, row.delta),
     key |-> row.res, delta |-> row.delta]

IsRegression(row) == RLess(RZero, row.delta)

endpoint_candidates_of_KeepsAll(mode_, rows) ==
    LET kept == Take(SortDesc(DeltaGt, rows), TopEndpoints)
    IN  [i \in 1..Len(kept) |-> endpoint_candidate(mode_, kept[i])]

\* lines 367-378 on the rows of lines 354-366
endpoint_candidates_of(mode_, rows) ==
    LET kept == SelectSeq(Take(SortDesc(DeltaGt, rows), TopEndpoints), IsRegression)
    IN  [i \in 1..Len(kept) |-> endpoint_candidate(mode_, kept[i])]

\* lines 345-346 and 354-365
endpoint_rows_of(mode_, inc_spans, base_spans) ==
    endpoint_rows(mode_,
        group_endpoint_stats(list_or(of_kind(inc_spans, ServerKind), inc_spans)),
        group_endpoint_stats(list_or(of_kind(base_spans, ServerKind), base_spans)))

endpoint_candidates(mode_, inc_spans, base_spans) ==
    endpoint_candidates_of(mode_, endpoint_rows_of(mode_, inc_spans, base_spans))

base_duration(groups, b) == IF b = 0 THEN NoneStr ELSE groups[b].total_duration_ms

base_error_rate(groups, b) == IF b = 0 THEN NoneStr ELSE groups[b].error_rate

\* lines 382-389 for one incident dependency; b indexes its baseline group
dep_row(inc, deps_base, b) ==
    [dur_delta |-> RSub(or_zero(inc.total_duration_ms),
                        or_zero(base_duration(deps_base, b))),
     err_delta |-> RSub(or_zero(inc.error_rate),
                        or_zero(base_error_rate(deps_base, b))),
     dep |-> inc.key]

dep_rows(deps_inc, deps_base) ==
    [i \in 1..Len(deps_inc) |->
        dep_row(deps_inc[i], deps_base, group_index(deps_base, deps_inc[i].key))]

\* key=lambda t: (t[0], t[1]), reverse=True
DepGt(x, y) ==
    \/ RLess(y.dur_delta, x.dur_delta)
    \/ x.dur_delta = y.dur_delta /\ RLess(y.err_delta, x.err_delta)

TopDependencies == 7

DurationScale == 2000

DependencyTitle == <<"D", "o", "w", "n", "s", "t", "r", "e", "a", "m", " ", "s", "u", "s", "p", "e", "c", "t", ":", " ">>

\* lines 393 and 398
dependency_score(dur_delta, err_delta) ==
    RMin(Rat(99, 100),
         RMin(Rat(95, 100),
              RMax(RZero, RAdd(RDiv(dur_delta, RInt(DurationScale)),
                               RDiv(err_delta, Rat(1, 2))))))

dependency_candidate(row) ==
    [kind |-> "dependency", title |-> DependencyTitle \o row.dep,
     score |-> dependency_score(row.dur_delta, row.err_delta),
     key |-> row.dep,
     duration_delta_ms |-> row.dur_delta, error_rate_delta |-> row.err_delta]

IsSuspect(row) == ~(RLeq(row.dur_delta, RZero) /\ RLeq(row.err_delta, RZero))

\* lines 390-401 on the rows of lines 381-389
dependency_candidates_of(rows) ==
    LET kept == SelectSeq(Take(SortDesc(DepGt, rows), TopDependencies), IsSuspect)
    IN  [i \in 1..Len(kept) |-> dependency_candidate(kept[i])]

dependency_candidates(inc_spans, base_spans) ==
    dependency_candidates_of(
        dep_rows(group_dependency_stats(of_kind(inc_spans, ClientKind)),
                 group_dependency_stats(of_kind(base_spans, ClientKind))))

\* the candidates of lines 350-403
attribution_candidates(mode_, inc_spans, base_spans) ==
    SortDesc(ScoreGt, endpoint_candidates(mode_, inc_spans, base_spans)
                      \o dependency_candidates(inc_spans, base_spans))

\* lines 345-346
endpoints_of(spans) ==
    group_endpoint_stats(list_or(of_kind(spans, ServerKind), spans))

\* lines 347-348
dependencies_of(spans) == group_dependency_stats(of_kind(spans, ClientKind))

\* None where a statistics dict is expected
NoStats == [none |-> TRUE]

\* d.get(key)
stats_of(groups, i) == IF i = 0 THEN NoStats ELSE groups[i]

TopRows == 10

\* lines 415-418 on the sorted rows
top_endpoints(rows, endpoints_inc, endpoints_base) ==
    [i \in 1..Len(Take(rows, TopRows)) |->
        [resource |-> rows[i].res,
         incident |-> stats_of(endpoints_inc, group_index(endpoints_inc, rows[i].res)),
         baseline |-> stats_of(endpoints_base, group_index(endpoints_base, rows[i].res))]]

\* lines 419-422 on the sorted rows
top_dependencies(rows, deps_inc, deps_base) ==
    [i \in 1..Len(Take(rows, TopRows)) |->
        [dependency |-> rows[i].dep,
         incident |-> stats_of(deps_inc, group_index(deps_inc, rows[i].dep)),
         baseline |-> stats_of(deps_base, group_index(deps_base, rows[i].dep))]]

\* the findings of lines 404-423
attribution_findings(mode_, inc_spans, base_spans) ==
    [enabled |-> TRUE,
     top_endpoints |->
        top_endpoints(SortDesc(DeltaGt, endpoint_rows(mode_, endpoints_of(inc_spans),
                                                      endpoints_of(base_spans))),
                      endpoints_of(inc_spans), endpoints_of(base_spans)),
     top_dependencies |->
        top_dependencies(SortDesc(DepGt, dep_rows(dependencies_of(inc_spans),
                                                  dependencies_of(base_spans))),
                         dependencies_of(inc_spans), dependencies_of(base_spans)),
     counts |-> [incident_spans |-> Len(inc_spans),
                 baseline_spans |-> Len(base_spans),
                 incident_server_spans |-> Len(of_kind(inc_spans, ServerKind)),
                 baseline_server_spans |-> Len(of_kind(base_spans, ServerKind)),
                 incident_client_spans |-> Len(of_kind(inc_spans, ClientKind)),
                 baseline_client_spans |-> Len(of_kind(base_spans, ClientKind))]]

\* line 326
FindingsDisabled == [enabled |-> FALSE, reason |-> "missing service/env"]

\* line 334
FindingsFailed == [enabled |-> TRUE, error |-> "DatadogError"]

\* no attribution has run
NoFindings == [pending |-> TRUE]

MaxCandidates == 20

\* candidates.extend(apm_candidates); candidates.sort(...), e.g. lines 161-162
combined_ApmFirst(log_candidates, apm_candidates_) ==
    SortDesc(ScoreGt, apm_candidates_ \o log_candidates)

combined(log_candidates, apm_candidates_) ==
    SortDesc(ScoreGt, log_candidates \o apm_candidates_)

(***************************************************************************)
(* The log steps of an analyze_* run, in the order of pipeline.py:         *)
(* cluster_logs, merge_baseline_counts, rank_clusters, score_log_clusters. *)
(***************************************************************************)
ClusterLogs ==
    /\ pc = "cluster"
    /\ clusters' = cluster_logs(incident_logs)
    /\ pc' = "merge"
    /\ UNCHANGED <<calls, msg, out, incident_logs, baseline_logs, rank_limit,
                   score_limit, top_clusters, candidates, apmVars>>

MergeBaseline ==
    /\ pc = "merge"
    /\ clusters' = merge_baseline_counts(clusters, baseline_logs)
    /\ pc' = "rank"
    /\ UNCHANGED <<calls, msg, out, incident_logs, baseline_logs, rank_limit,
                   score_limit, top_clusters, candidates, apmVars>>

RankClusters ==
    /\ pc = "rank"
    /\ top_clusters' = rank_clusters(clusters, rank_limit)
    /\ pc' = "score"
    /\ UNCHANGED <<calls, msg, out, incident_logs, baseline_logs, clusters,
                   rank_limit, score_limit, candidates, apmVars>>

ScoreLogClusters ==
    /\ pc = "score"
    /\ candidates' = score_log_clusters(top_clusters, score_limit)
    /\ pc' = "apm"
    /\ UNCHANGED <<calls, msg, out, incident_logs, baseline_logs, clusters,
                   rank_limit, score_limit, top_clusters, apmVars>>

(***************************************************************************)
(* _maybe_apm_attribution and the end of an analyze_* run.  The spans the  *)
(* client returns for the two windows are incident_spans and               *)
(* baseline_spans; either search may raise DatadogError instead.           *)
(***************************************************************************)
\* the entries of calls: a query of the client that returned, and one
\* that raised DatadogError
Returned(query) == [query |-> query, raised |-> FALSE]

Raised(query) == [query |-> query, raised |-> TRUE]

\* lines 325-326
ApmDisabled ==
    /\ pc = "apm"
    /\ ~scope_complete
    /\ apm_findings' = FindingsDisabled
    /\ apm_candidates' = <<>>
    /\ pc' = "combine"
    /\ UNCHANGED <<calls, msg, out, logVars, mode, scope_complete, incident_spans,
                   baseline_spans, report_candidates>>

SearchSpansFails_Propagates ==
    /\ pc = "apm"
    /\ scope_complete
    /\ \E issued \in 1..2 :
          calls' = calls \o [i \in 1..issued |-> IF i = issued THEN Raised("search_spans")
                                                 ELSE Returned("search_spans")]
    /\ apm_findings' = FindingsFailed
    /\ apm_candidates' = <<>>
    /\ pc' = "raised"
    /\ UNCHANGED <<msg, out, logVars, mode, scope_complete, incident_spans,
                   baseline_spans, report_candidates>>

\* lines 330-334: the search of the incident window raises DatadogError,
\* or it returns and the search of the baseline window raises
SearchSpansFails ==
    /\ pc = "apm"
    /\ scope_complete
    /\ \E issued \in 1..2 :
          calls' = calls \o [i \in 1..issued |-> IF i = issued THEN Raised("search_spans")
                                                 ELSE Returned("search_spans")]
    /\ apm_findings' = FindingsFailed
    /\ apm_candidates' = <<>>
    /\ pc' = "combine"
    /\ UNCHANGED <<msg, out, logVars, mode, scope_complete, incident_spans,
                   baseline_spans, report_candidates>>

\* lines 330-332, both searches return
SearchSpans ==
    /\ pc = "apm"
    /\ scope_complete
    /\ calls' = calls \o <<Returned("search_spans"), Returned("search_spans")>>
    /\ pc' = "spans"
    /\ UNCHANGED <<msg, out, logVars, apmVars>>

\* normalize_span raises on a span of one of the windows (lines 336-337)
spans_raise(raw) == \E i \in 1..Len(raw) : IsDict(raw[i]) /\ normalize_raises(raw[i])

\* lines 336-337: the exception of normalize_span is not a DatadogError
\* and leaves _maybe_apm_attribution and the analyze_* call
ApmAttributionRaises ==
    /\ pc = "spans"
    /\ spans_raise(incident_spans \o baseline_spans)
    /\ pc' = "raised"
    /\ UNCHANGED <<calls, msg, out, logVars, apmVars>>

\* lines 336-424
ApmAttribution ==
    /\ pc = "spans"
    /\ ~spans_raise(incident_spans \o baseline_spans)
    /\ apm_findings' = attribution_findings(mode, normalized(incident_spans),
                                            normalized(baseline_spans))
    /\ apm_candidates' = attribution_candidates(mode, normalized(incident_spans),
                                                normalized(baseline_spans))
    /\ pc' = "combine"
    /\ UNCHANGED <<calls, msg, out, logVars, mode, scope_complete, incident_spans,
                   baseline_spans, report_candidates>>

\* candidates.extend(apm_candidates); candidates.sort(...)
CombineCandidates ==
    /\ pc = "combine"
    /\ candidates' = combined(candidates, apm_candidates)
    /\ pc' = "events"
    /\ UNCHANGED <<calls, msg, out, incident_logs, baseline_logs, clusters,
                   rank_limit, score_limit, top_clusters, apmVars>>

\* an event of the response of search_events: date_happened is <<>> when
\* absent or None, <<n>> for epoch second n
RawEvent(date_happened, title) ==
    [is_dict |-> TRUE, date_happened |-> date_happened, title |-> title]

\* the responses the client gives to search_events
EventResponses ==
    {<<>>,
     <<RawEvent(<<20>>, "deploy")>>,
     <<RawEvent(<<30>>, "scale"), RawEvent(<<>>, "note"),
       [is_dict |-> FALSE], RawEvent(<<10>>, "deploy")>>}

EventLimit == 20

EventBefore(x, y) == x.ts < y.ts

\* events.py lines 11-32: the events that are records with a date, by
\* date, the first limit of them
parse_events(events, limit) ==
    LET kept == SelectSeq(events, LAMBDA e : e.is_dict /\ e.date_happened # <<>>)
        items == [i \in 1..Len(kept) |->
                    [ts |-> kept[i].date_happened[1], title |-> kept[i].title]]
    IN  Take(SortDesc(EventBefore, items), limit)

\* events_resp = client.search_events(...); events = parse_events(events_resp,
\* limit=20), e.g. lines 164-169
SearchEvents ==
    /\ pc = "events"
    /\ calls' = Append(calls, Returned("search_events"))
    /\ \E resp \in EventResponses :
          out' = [windows |-> out, events |-> parse_events(resp, EventLimit)]
    /\ pc' = "findings"
    /\ UNCHANGED <<msg, logVars, apmVars>>

\* search_events raises DatadogError, which leaves the analyze_* call
SearchEventsFails ==
    /\ pc = "events"
    /\ calls' = Append(calls, Raised("search_events"))
    /\ out' = [raised |-> "DatadogError"]
    /\ pc' = "raised"
    /\ UNCHANGED <<msg, logVars, apmVars>>

\* "candidates": [asdict(c) for c in candidates[:20]]
BuildFindings ==
    /\ pc = "findings"
    /\ report_candidates' = Take(candidates, MaxCandidates)
    /\ pc' = "done"
    /\ UNCHANGED <<calls, msg, out, logVars, mode, scope_complete, incident_spans,
                   baseline_spans, apm_findings, apm_candidates>>

\* no attribution has run and no report is built
ApmIdle ==
    /\ mode = "latency"
    /\ scope_complete = FALSE
    /\ incident_spans = <<>>
    /\ baseline_spans = <<>>
    /\ apm_findings = NoFindings
    /\ apm_candidates = <<>>
    /\ report_candidates = <<>>

\* limit=10 of analyze_from_monitor, limit=15 of the other entry points
RankLimits == {10, 15}

ScoreLimit == 10

(***************************************************************************)
(* normalize_message on its own.                                           *)
(***************************************************************************)
MaxMsgLen == 3

NormAlphabet == {"0", "7", "x", "a", " ", "_", "-"}

RECURSIVE StringsUpTo(_, _)
StringsUpTo(A, n) ==
    IF n = 0 THEN {<<>>}
    ELSE LET shorter == StringsUpTo(A, n - 1)
         IN  shorter \cup {Append(s, c) : s \in shorter, c \in A}

\* the messages of tests/test_logs_clustering.py and of the test clients
NormSamples ==
    {<<"U", "s", "e", "r", " ", "1", "2", "3", " ", "f", "a", "i", "l", "e", "d", " ", "r", "e", "q", "u", "e", "s", "t", " ", "i", "d", " ", "5", "5", "0", "e", "8", "4", "0", "0", "-", "e", "2", "9", "b", "-", "4", "1", "d", "4", "-", "a", "7", "1", "6", "-", "4", "4", "6", "6", "5", "5", "4", "4", "0", "0", "0", "0">>,
     <<"U", "s", "e", "r", " ", "9", "9", "9", " ", "f", "a", "i", "l", "e", "d", " ", "r", "e", "q", "u", "e", "s", "t", " ", "i", "d", " ", "5", "5", "0", "e", "8", "4", "0", "0", "-", "e", "2", "9", "b", "-", "4", "1", "d", "4", "-", "a", "7", "1", "6", "-", "4", "4", "6", "6", "5", "5", "4", "4", "0", "0", "0", "0">>,
     <<"d", "b", " ", "t", "i", "m", "e", "o", "u", "t", " ", "a", "f", "t", "e", "r", " ", "5", "0", "0", "0", "m", "s">>,
     <<"d", "b", " ", "t", "i", "m", "e", "o", "u", "t", " ", "a", "f", "t", "e", "r", " ", "3", "0", "0", "0", "m", "s">>,
     <<"e", "r", "r", "o", "r", " ", "c", "o", "d", "e", " ", "5", "0", "0", " ", "u", "s", "e", "r", " ", "1">>,
     <<"p", "e", "e", "r", " ", "1", "0", ".", "0", ".", "0", ".", "1", " ", "s", "e", "n", "t", " ", "0", "x", "1", "f">>}

NormInputs == StringsUpTo(NormAlphabet, MaxMsgLen) \cup NormSamples

InitNorm ==
    /\ pc = "norm"
    /\ msg \in NormInputs
    /\ out = NoneStr
    /\ calls = <<>>
    /\ incident_logs = <<>>
    /\ baseline_logs = <<>>
    /\ clusters = <<>>
    /\ rank_limit = 10
    /\ score_limit = ScoreLimit
    /\ top_clusters = <<>>
    /\ candidates = <<>>
    /\ ApmIdle

NormalizeMessage ==
    /\ pc = "norm"
    /\ out' = normalize_message(msg)
    /\ pc' = "normalized"
    /\ UNCHANGED <<calls, msg, logVars, apmVars>>

NextNorm == NormalizeMessage

SpecNorm == InitNorm /\ [][NextNorm]_vars

(***************************************************************************)
(* The log steps on log records.                                           *)
(***************************************************************************)
MaxLogs == 2

MaxBaselineLogs == 2

\* the baseline window holds records of three of the signatures
BaselinePool ==
    {r \in CoreLogs :
        r.message \in {<<"e", "r", "r", " ", "2">>,
                       <<"d", "b", " ", "d", "o", "w", "n">>,
                       <<"r", "u", "u", "h", "q", "m", "h", "m", "p", "p", "o", "j">>}}

InitLogs ==
    /\ pc = "cluster"
    /\ msg = <<>>
    /\ out = NoneStr
    /\ calls = <<>>
    /\ \/ /\ incident_logs \in {<<r>> : r \in AllLogs}
          /\ baseline_logs = <<>>
       \/ /\ incident_logs \in SeqsUpTo(CoreLogs, MaxLogs)
          /\ baseline_logs \in SeqsUpTo(BaselinePool, MaxBaselineLogs)
    /\ clusters = <<>>
    /\ rank_limit = 10
    /\ score_limit = ScoreLimit
    /\ top_clusters = <<>>
    /\ candidates = <<>>
    /\ ApmIdle

NextLogs == ClusterLogs \/ MergeBaseline \/ RankClusters \/ ScoreLogClusters

SpecLogs == InitLogs /\ [][NextLogs]_vars

(***************************************************************************)
(* rank_clusters and score_log_clusters on cluster maps given by their     *)
(* counts.                                                                 *)
(***************************************************************************)
MaxClusters == 2

IncidentCounts == {1, 5, 12, 100, 10000}

BaselineCounts == {0, 1, 50}

\* the i-th key of a cluster map given by its counts
KeyOf(i) == <<"0", "0", "0", "0", "0", "0", "0", "0", "0", "0", "0">> \o
            <<CHOOSE d \in Digits : CharOrd(d) = 48 + i>>

ClusterMaps ==
    {[i \in 1..Len(cs) |->
        [fingerprint |-> KeyOf(i), template |-> MsgPrefix,
         count_incident |-> cs[i][1], count_baseline |-> cs[i][2],
         first_seen |-> NoneStr]] :
     cs \in SeqsUpTo(IncidentCounts \X BaselineCounts, MaxClusters)}

InitRank ==
    /\ pc = "rank"
    /\ msg = <<>>
    /\ out = NoneStr
    /\ calls = <<>>
    /\ incident_logs = <<>>
    /\ baseline_logs = <<>>
    /\ clusters \in ClusterMaps
    /\ rank_limit \in RankLimits \cup {1}
    /\ score_limit \in {1, ScoreLimit}
    /\ top_clusters = <<>>
    /\ candidates = <<>>
    /\ ApmIdle

NextRank == RankClusters \/ ScoreLogClusters

SpecRank == InitRank /\ [][NextRank]_vars

(***************************************************************************)
(* _maybe_apm_attribution on raw spans, and the end of the run.            *)
(***************************************************************************)
\* raw spans in the shapes normalize_span reads: alternative keys, a
\* duration in nanoseconds, error flags of several types

SpanPool ==
    {[is_dict |-> TRUE, attributes |->
        ("resource" :> PyStr(<<"/", "a">>)) @@ ("span.kind" :> PyStr(<<"s", "e", "r", "v", "e", "r">>)) @@ ("duration" :> PyNum(100, 1)) @@ ("error" :> PyBool(FALSE))],
     [is_dict |-> TRUE, attributes |->
        ("resource_name" :> PyStr(<<"/", "a">>)) @@ ("span.kind" :> PyStr(<<"S", "e", "r", "v", "e", "r">>)) @@ ("duration_ns" :> PyNum(700000000, 1)) @@ ("is_error" :> PyBool(TRUE))],
     [is_dict |-> TRUE, attributes |->
        ("resource" :> PyStr(<<"/", "b">>)) @@ ("span.kind" :> PyStr(<<"s", "e", "r", "v", "e", "r">>)) @@ ("duration" :> PyNum(300, 1)) @@ ("error" :> PyNum(1, 1))],
     [is_dict |-> TRUE, attributes |->
        ("resource" :> PyStr(<<"/", "a">>)) @@ ("span.kind" :> PyStr(<<"c", "l", "i", "e", "n", "t">>)) @@ ("peer.service" :> PyStr(<<"d", "b">>)) @@ ("duration" :> PyNum(10000, 1)) @@ ("error" :> PyBool(FALSE))],
     [is_dict |-> TRUE, attributes |->
        ("span_kind" :> PyStr(<<"C", "L", "I", "E", "N", "T">>)) @@ ("span.type" :> PyStr(<<"r", "e", "d", "i", "s">>)) @@ ("name" :> PyStr(<<"g", "e", "t">>)) @@ ("duration" :> PyNum(101, 2)) @@ ("error" :> PyBool(TRUE))],
     [is_dict |-> TRUE, attributes |->
        ("span.kind" :> PyStr(<<"c", "l", "i", "e", "n", "t">>)) @@ ("peer_service" :> PyStr(<<"d", "b">>)) @@ ("duration" :> PyNum(3000, 1)) @@ ("error" :> PyNum(5, 2))]}

\* a window with six endpoints and eight dependencies, an item that is
\* not a dict, one without attributes and one with unusable values

BigIncidentSpans ==
    <<[is_dict |-> TRUE, attributes |->
        ("resource" :> PyStr(<<"/", "r", "1">>)) @@ ("span.kind" :> PyStr(<<"s", "e", "r", "v", "e", "r">>)) @@ ("duration" :> PyNum(600, 1)) @@ ("error" :> PyBool(TRUE))],
      [is_dict |-> TRUE, attributes |->
        ("resource" :> PyStr(<<"/", "r", "2">>)) @@ ("span.kind" :> PyStr(<<"s", "e", "r", "v", "e", "r">>)) @@ ("duration" :> PyNum(475, 1)) @@ ("error" :> PyBool(TRUE))],
      [is_dict |-> TRUE, attributes |->
        ("resource" :> PyStr(<<"/", "r", "2">>)) @@ ("span.kind" :> PyStr(<<"s", "e", "r", "v", "e", "r">>)) @@ ("duration" :> PyNum(475, 1)) @@ ("error" :> PyBool(FALSE))],
      [is_dict |-> TRUE, attributes |->
        ("resource" :> PyStr(<<"/", "r", "2">>)) @@ ("span.kind" :> PyStr(<<"s", "e", "r", "v", "e", "r">>)) @@ ("duration" :> PyNum(475, 1)) @@ ("error" :> PyBool(FALSE))],
      [is_dict |-> TRUE, attributes |->
        ("resource" :> PyStr(<<"/", "r", "2">>)) @@ ("span.kind" :> PyStr(<<"s", "e", "r", "v", "e", "r">>)) @@ ("duration" :> PyNum(475, 1)) @@ ("error" :> PyBool(FALSE))],
      [is_dict |-> TRUE, attributes |->
        ("resource" :> PyStr(<<"/", "r", "3">>)) @@ ("span.kind" :> PyStr(<<"s", "e", "r", "v", "e", "r">>)) @@ ("duration" :> PyNum(452500000, 1)) @@ ("error" :> PyBool(FALSE))],
      [is_dict |-> TRUE, attributes |->
        ("resource" :> PyStr(<<"/", "r", "4">>)) @@ ("span.kind" :> PyStr(<<"s", "e", "r", "v", "e", "r">>)) @@ ("duration" :> PyNum(100, 1)) @@ ("error" :> PyBool(FALSE))],
      [is_dict |-> TRUE, attributes |->
        ("resource" :> PyStr(<<"/", "r", "5">>)) @@ ("span.kind" :> PyStr(<<"s", "e", "r", "v", "e", "r">>)) @@ ("duration" :> PyNum(50, 1)) @@ ("error" :> PyBool(FALSE))],
      [is_dict |-> TRUE, attributes |->
        ("resource" :> PyStr(<<"/", "r", "6">>)) @@ ("span.kind" :> PyStr(<<"s", "e", "r", "v", "e", "r">>)) @@ ("duration" :> PyNum(10, 1)) @@ ("error" :> PyBool(FALSE))],
      [is_dict |-> FALSE, attributes |-> <<>>],
      [is_dict |-> TRUE, attributes |-> <<>>],
      [is_dict |-> TRUE, attributes |->
        ("span.kind" :> PyStr(<<"c", "l", "i", "e", "n", "t">>)) @@ ("peer.service" :> PyStr(<<"d", "1">>)) @@ ("duration" :> PyNum(2000, 1)) @@ ("error" :> PyBool(FALSE))],
      [is_dict |-> TRUE, attributes |->
        ("span.kind" :> PyStr(<<"c", "l", "i", "e", "n", "t">>)) @@ ("peer.service" :> PyStr(<<"d", "2">>)) @@ ("duration" :> PyNum(1900, 1)) @@ ("error" :> PyBool(FALSE))],
      [is_dict |-> TRUE, attributes |->
        ("span.kind" :> PyStr(<<"c", "l", "i", "e", "n", "t">>)) @@ ("peer.service" :> PyStr(<<"d", "3">>)) @@ ("duration" :> PyNum(1810, 1)) @@ ("error" :> PyBool(FALSE))],
      [is_dict |-> TRUE, attributes |->
        ("span.kind" :> PyStr(<<"c", "l", "i", "e", "n", "t">>)) @@ ("peer.service" :> PyStr(<<"d", "4">>)) @@ ("duration" :> PyNum(1000, 1)) @@ ("error" :> PyBool(FALSE))],
      [is_dict |-> TRUE, attributes |->
        ("span.kind" :> PyStr(<<"c", "l", "i", "e", "n", "t">>)) @@ ("peer.service" :> PyStr(<<"d", "5">>)) @@ ("duration" :> PyNum(400, 1)) @@ ("error" :> PyBool(FALSE))],
      [is_dict |-> TRUE, attributes |->
        ("span.kind" :> PyStr(<<"c", "l", "i", "e", "n", "t">>)) @@ ("peer.service" :> PyStr(<<"d", "6">>)) @@ ("duration" :> PyNum(200, 1)) @@ ("error" :> PyBool(FALSE))],
      [is_dict |-> TRUE, attributes |->
        ("span.kind" :> PyStr(<<"c", "l", "i", "e", "n", "t">>)) @@ ("peer.service" :> PyStr(<<"d", "7">>)) @@ ("duration" :> PyNum(100, 1)) @@ ("error" :> PyBool(TRUE))],
      [is_dict |-> TRUE, attributes |->
        ("span.kind" :> PyStr(<<"c", "l", "i", "e", "n", "t">>)) @@ ("peer.service" :> PyStr(<<"d", "8">>)) @@ ("duration" :> PyNum(20, 1)) @@ ("error" :> PyBool(FALSE))],
      [is_dict |-> TRUE, attributes |->
        ("span.kind" :> PyStr(<<"i", "n", "t", "e", "r", "n", "a", "l">>)) @@ ("name" :> PyStr(<<"o", "p">>)) @@ ("duration" :> PyStr(<<"f", "a", "s", "t">>)) @@ ("error" :> PyStr(<<"y", "e", "s">>))]>>

BigBaselineSpans ==
    <<[is_dict |-> TRUE, attributes |->
        ("resource" :> PyStr(<<"/", "r", "4">>)) @@ ("span.kind" :> PyStr(<<"s", "e", "r", "v", "e", "r">>)) @@ ("duration" :> PyNum(100, 1)) @@ ("error" :> PyBool(FALSE))],
      [is_dict |-> TRUE, attributes |->
        ("resource" :> PyStr(<<"/", "r", "5">>)) @@ ("span.kind" :> PyStr(<<"s", "e", "r", "v", "e", "r">>)) @@ ("duration" :> PyNum(80, 1)) @@ ("error" :> PyBool(FALSE))],
      [is_dict |-> TRUE, attributes |->
        ("resource" :> PyStr(<<"/", "r", "9">>)) @@ ("span.kind" :> PyStr(<<"s", "e", "r", "v", "e", "r">>)) @@ ("duration" :> PyNum(5, 1)) @@ ("error" :> PyBool(FALSE))],
      [is_dict |-> TRUE, attributes |->
        ("span.kind" :> PyStr(<<"c", "l", "i", "e", "n", "t">>)) @@ ("peer.service" :> PyStr(<<"d", "5">>)) @@ ("duration" :> PyNum(400, 1)) @@ ("error" :> PyBool(FALSE))],
      [is_dict |-> TRUE, attributes |->
        ("span.kind" :> PyStr(<<"c", "l", "i", "e", "n", "t">>)) @@ ("peer.service" :> PyStr(<<"d", "6">>)) @@ ("duration" :> PyNum(50, 1)) @@ ("error" :> PyBool(FALSE))],
      [is_dict |-> TRUE, attributes |->
        ("span.kind" :> PyStr(<<"c", "l", "i", "e", "n", "t">>)) @@ ("peer.service" :> PyStr(<<"d", "7">>)) @@ ("duration" :> PyNum(100, 1)) @@ ("error" :> PyBool(TRUE))],
      [is_dict |-> TRUE, attributes |->
        ("duration" :> PyNone)]>>

\* a window where seven dependencies without any change precede, in the
\* order of line 389, one whose error rate rose while its duration fell
CrowdedIncidentSpans ==
    <<[is_dict |-> TRUE, attributes |->
        ("span.kind" :> PyStr(<<"c", "l", "i", "e", "n", "t">>)) @@ ("peer.service" :> PyStr(<<"q", "1">>))],
      [is_dict |-> TRUE, attributes |->
        ("span.kind" :> PyStr(<<"c", "l", "i", "e", "n", "t">>)) @@ ("peer.service" :> PyStr(<<"q", "2">>))],
      [is_dict |-> TRUE, attributes |->
        ("span.kind" :> PyStr(<<"c", "l", "i", "e", "n", "t">>)) @@ ("peer.service" :> PyStr(<<"q", "3">>))],
      [is_dict |-> TRUE, attributes |->
        ("span.kind" :> PyStr(<<"c", "l", "i", "e", "n", "t">>)) @@ ("peer.service" :> PyStr(<<"q", "4">>))],
      [is_dict |-> TRUE, attributes |->
        ("span.kind" :> PyStr(<<"c", "l", "i", "e", "n", "t">>)) @@ ("peer.service" :> PyStr(<<"q", "5">>))],
      [is_dict |-> TRUE, attributes |->
        ("span.kind" :> PyStr(<<"c", "l", "i", "e", "n", "t">>)) @@ ("peer.service" :> PyStr(<<"q", "6">>))],
      [is_dict |-> TRUE, attributes |->
        ("span.kind" :> PyStr(<<"c", "l", "i", "e", "n", "t">>)) @@ ("peer.service" :> PyStr(<<"q", "7">>))],
      [is_dict |-> TRUE, attributes |->
        ("span.kind" :> PyStr(<<"c", "l", "i", "e", "n", "t">>)) @@ ("peer.service" :> PyStr(<<"d", "b">>)) @@ ("duration" :> PyNum(10, 1)) @@ ("error" :> PyBool(TRUE))]>>

CrowdedBaselineSpans ==
    <<[is_dict |-> TRUE, attributes |->
        ("span.kind" :> PyStr(<<"c", "l", "i", "e", "n", "t">>)) @@ ("peer.service" :> PyStr(<<"d", "b">>)) @@ ("duration" :> PyNum(100, 1)) @@ ("error" :> PyBool(FALSE))]>>

\* a window with a record that holds a number under "attributes"
RaisingSpans == <<[is_dict |-> TRUE, attributes |-> PyNum(5, 1)]>>

MaxSpans == 2

MaxBaselineSpans == 1

Modes == {"latency", "errors"}

SpanWindows ==
    (SeqsUpTo(SpanPool, MaxSpans) \X SeqsUpTo(SpanPool, MaxBaselineSpans))
    \cup {<<BigIncidentSpans, <<>>>>, <<BigIncidentSpans, BigBaselineSpans>>,
          <<CrowdedIncidentSpans, CrowdedBaselineSpans>>,
          <<RaisingSpans, <<>>>>}

InitApm ==
    /\ pc = "apm"
    /\ msg = <<>>
    /\ out = NoneStr
    /\ calls = <<>>
    /\ incident_logs = <<>>
    /\ baseline_logs = <<>>
    /\ clusters = <<>>
    /\ rank_limit = 10
    /\ score_limit = ScoreLimit
    /\ top_clusters = <<>>
    /\ candidates = <<>>
    /\ mode \in Modes
    /\ scope_complete \in BOOLEAN
    /\ \E w \in SpanWindows : incident_spans = w[1] /\ baseline_spans = w[2]
    /\ scope_complete \/ (incident_spans = <<>> /\ baseline_spans = <<>>)
    /\ apm_findings = NoFindings
    /\ apm_candidates = <<>>
    /\ report_candidates = <<>>

NextApm ==
    \/ ApmDisabled
    \/ SearchSpansFails
    \/ SearchSpans
    \/ ApmAttribution
    \/ ApmAttributionRaises
    \/ CombineCandidates
    \/ SearchEvents
    \/ SearchEventsFails
    \/ BuildFindings

SpecApm == InitApm /\ [][NextApm]_vars

(***************************************************************************)
(* normalize_span, group_endpoint_stats and group_dependency_stats on      *)
(* their own: msg is a list of raw spans, out the normalized spans and     *)
(* then their groups, or the exception normalize_span raised.              *)
(***************************************************************************)
\* raw spans for normalize_span and the two groupings on their own: the
\* duration at and around the unit threshold, as a numeral and as a word,
\* error flags of every type, empty strings, a record without attributes,
\* with None or a number in their place, and an infinite error flag

SpanShapes ==
    {[is_dict |-> TRUE, attributes |->
        ("resource" :> PyStr(<<"/", "a">>)) @@ ("duration" :> PyNum(10000, 1)) @@ ("error" :> PyBool(TRUE)) @@ ("trace_id" :> PyStr(<<"t", "1">>)) @@ ("peer.service" :> PyStr(<<"p", "g">>)) @@ ("span.type" :> PyStr(<<"d", "b">>))],
     [is_dict |-> TRUE, attributes |->
        ("duration" :> PyNum(10001, 1)) @@ ("error" :> PyBool(FALSE))],
     [is_dict |-> TRUE, attributes |->
        ("resource_name" :> PyStr(<<"/", "b">>)) @@ ("duration_ns" :> PyNum(50000000, 1)) @@ ("is_error" :> PyNum(1, 1)) @@ ("trace_id" :> PyStr(<<>>)) @@ ("name" :> PyStr(<<"o", "p">>))],
     [is_dict |-> TRUE, attributes |->
        ("resource" :> PyStr(<<>>)) @@ ("duration" :> PyStr(<<"5", "0">>)) @@ ("error" :> PyNum(1, 2)) @@ ("peer.service" :> PyStr(<<>>)) @@ ("span_type" :> PyStr(<<>>)) @@ ("name" :> PyStr(<<>>))],
     [is_dict |-> TRUE, attributes |->
        ("duration" :> PyStr(<<"f", "a", "s", "t">>)) @@ ("error" :> PyStr(<<"y", "e", "s">>)) @@ ("http.status_code" :> PyStr(<<"x">>)) @@ ("peer_service" :> PyStr(<<"p", "g">>))],
     [is_dict |-> TRUE, attributes |->
        ("resource" :> PyStr(<<"/", "a">>)) @@ ("durationNano" :> PyNum(50, 1)) @@ ("error" :> PyBool(TRUE)) @@ ("trace.id" :> PyStr(<<"t", "2">>)) @@ ("http.status" :> PyNum(500, 1)) @@ ("type" :> PyStr(<<"w", "e", "b">>)) @@ ("name" :> PyStr(<<"q">>))],
     [is_dict |-> TRUE, attributes |-> <<>>],
     [is_dict |-> TRUE, attributes |-> PyNone],
     [is_dict |-> TRUE, attributes |-> PyNone],
     [is_dict |-> TRUE, attributes |-> PyNum(5, 1)],
     [is_dict |-> TRUE, attributes |->
        ("resource" :> PyStr(<<"/", "a">>)) @@ ("error" :> PyInf)]}

\* eleven spans, eight of one resource, seven of them with a trace id, and
\* one span without resource

TracedSpans ==
    <<[is_dict |-> TRUE, attributes |->
        ("resource" :> PyStr(<<"/", "t">>)) @@ ("error" :> PyBool(TRUE)) @@ ("trace_id" :> PyStr(<<"t", "1">>))],
      [is_dict |-> TRUE, attributes |->
        ("resource" :> PyStr(<<"/", "t">>)) @@ ("error" :> PyBool(FALSE)) @@ ("trace_id" :> PyStr(<<"t", "2">>))],
      [is_dict |-> TRUE, attributes |->
        ("resource" :> PyStr(<<"/", "t">>)) @@ ("error" :> PyBool(FALSE)) @@ ("trace_id" :> PyStr(<<>>))],
      [is_dict |-> TRUE, attributes |->
        ("resource" :> PyStr(<<"/", "t">>)) @@ ("error" :> PyBool(TRUE)) @@ ("trace_id" :> PyStr(<<"t", "3">>))],
      [is_dict |-> TRUE, attributes |->
        ("resource" :> PyStr(<<"/", "t">>)) @@ ("error" :> PyBool(FALSE))],
      [is_dict |-> TRUE, attributes |->
        ("resource" :> PyStr(<<"/", "t">>)) @@ ("error" :> PyBool(FALSE)) @@ ("trace_id" :> PyStr(<<"t", "4">>))],
      [is_dict |-> TRUE, attributes |->
        ("resource" :> PyStr(<<"/", "u">>)) @@ ("error" :> PyBool(FALSE)) @@ ("trace_id" :> PyStr(<<"u", "1">>))],
      [is_dict |-> TRUE, attributes |->
        ("resource" :> PyStr(<<"/", "t">>)) @@ ("error" :> PyBool(FALSE)) @@ ("trace_id" :> PyStr(<<"t", "5">>))],
      [is_dict |-> TRUE, attributes |->
        ("trace_id" :> PyStr(<<"x", "1">>)) @@ ("error" :> PyBool(TRUE))],
      [is_dict |-> TRUE, attributes |->
        ("resource" :> PyStr(<<"/", "t">>)) @@ ("error" :> PyBool(TRUE)) @@ ("trace_id" :> PyStr(<<"t", "6">>))],
      [is_dict |-> TRUE, attributes |->
        ("resource" :> PyStr(<<"/", "t">>)) @@ ("error" :> PyBool(FALSE)) @@ ("trace_id" :> PyStr(<<"t", "7">>))]>>

MaxGroupSpans == 2

SpanLists == SeqsUpTo(SpanShapes, MaxGroupSpans) \cup {TracedSpans}

InitSpans ==
    /\ pc = "normalize"
    /\ msg \in SpanLists
    /\ out = NoneStr
    /\ calls = <<>>
    /\ incident_logs = <<>>
    /\ baseline_logs = <<>>
    /\ clusters = <<>>
    /\ rank_limit = 10
    /\ score_limit = ScoreLimit
    /\ top_clusters = <<>>
    /\ candidates = <<>>
    /\ ApmIdle

\* [normalize_span(x) for x in raw]
NormalizeSpans ==
    /\ pc = "normalize"
    /\ \A i \in 1..Len(msg) : ~normalize_raises(msg[i])
    /\ out' = [spans |-> [i \in 1..Len(msg) |-> normalize_span(msg[i])]]
    /\ pc' = "group"
    /\ UNCHANGED <<calls, msg, logVars, apmVars>>

\* normalize_span raises on one of the spans
NormalizeSpanRaises ==
    /\ pc = "normalize"
    /\ \E i \in 1..Len(msg) : normalize_raises(msg[i])
    /\ out' = [raised |-> "normalize_span"]
    /\ pc' = "raised"
    /\ UNCHANGED <<calls, msg, logVars, apmVars>>

\* group_endpoint_stats(spans) and group_dependency_stats(spans)
GroupSpans ==
    /\ pc = "group"
    /\ out' = [spans |-> out.spans,
               endpoints |-> group_endpoint_stats(out.spans),
               dependencies |-> group_dependency_stats(out.spans)]
    /\ pc' = "grouped"
    /\ UNCHANGED <<calls, msg, logVars, apmVars>>

NextSpans ==
    \/ NormalizeSpans
    \/ NormalizeSpanRaises
    \/ GroupSpans

SpecSpans == InitSpans /\ [][NextSpans]_vars

(***************************************************************************)
(* percentile on its own: msg is [values, p], out the result.              *)
(***************************************************************************)
MaxValues == 3

PercentileValues == {Rat(-3, 1), RInt(1), RInt(2), Rat(5, 2), RInt(10)}

Percentiles == {-5, 0, 25, 50, 95, 99, 100, 120}

\* tests/test_apm_helpers.py lines 4-7
PercentileSample == <<RInt(1), RInt(2), RInt(3), RInt(4), RInt(5)>>

InitPercentile ==
    /\ pc = "percentile"
    /\ \E xs \in SeqsUpTo(PercentileValues, MaxValues) \cup {PercentileSample} :
           \E p \in Percentiles : msg = [values |-> xs, p |-> p]
    /\ out = NoneStr
    /\ calls = <<>>
    /\ incident_logs = <<>>
    /\ baseline_logs = <<>>
    /\ clusters = <<>>
    /\ rank_limit = 10
    /\ score_limit = ScoreLimit
    /\ top_clusters = <<>>
    /\ candidates = <<>>
    /\ ApmIdle

Percentile ==
    /\ pc = "percentile"
    /\ out' = percentile(msg.values, msg.p)
    /\ pc' = "percentiled"
    /\ UNCHANGED <<calls, msg, logVars, apmVars>>

NextPercentile == Percentile

SpecPercentile == InitPercentile /\ [][NextPercentile]_vars

(***************************************************************************)
(* The windows of a run (windows.py, pipeline.py lines 212-221).  An       *)
(* instant is a number of milliseconds, the value _parse_ts returns for    *)
(* the timestamp given; an absent baseline_minutes is <<>>, a given one    *)
(* <<n>>.  The bounds of the datetime type are not modelled.               *)
(***************************************************************************)
MillisPerMinute == 60000

MillisPerSecond == 1000

TimeWindow(start, end) == [start |-> start, end |-> end]

\* windows.py lines 62-79 on the parsed anchor
windows_from(anchor, win, base) ==
    [anchor |-> anchor,
     incident |-> TimeWindow(anchor - win, anchor),
     baseline |-> TimeWindow((anchor - win) - base, anchor - win)]

windows_ending_at_BaselineToAnchor(anchor, window_minutes, baseline_minutes) ==
    [anchor |-> anchor,
     incident |-> TimeWindow(anchor - MillisPerMinute * window_minutes, anchor),
     baseline |-> TimeWindow(anchor - MillisPerMinute * window_minutes
                                 - MillisPerMinute * (IF baseline_minutes # <<>>
                                                      THEN baseline_minutes[1]
                                                      ELSE window_minutes),
                             anchor)]

windows_ending_at(anchor, window_minutes, baseline_minutes) ==
    windows_from(anchor, MillisPerMinute * window_minutes,
                 MillisPerMinute * (IF baseline_minutes # <<>> THEN baseline_minutes[1]
                                    ELSE window_minutes))

window_invalid_OnlyReversed(start, end) == end < start

\* pipeline.py line 213
window_invalid(start, end) == end <= start

\* int((inc.end - inc.start).total_seconds()), for end after start
duration_s(start, end) == (end - start) \div MillisPerSecond

\* pipeline.py lines 212-217
service_windows(start, end) ==
    [anchor |-> end,
     incident |-> TimeWindow(start, end),
     baseline |-> TimeWindow(start - MillisPerSecond * duration_s(start, end), start)]

MaxMinutes == 2

MaxTick == 6

Anchors == {0, 1700000000}

\* instants half a second apart
ServiceInstants == {500 * k : k \in 0..MaxTick}

WindowInputs ==
    [anchor : Anchors, window_minutes : -1..MaxMinutes,
     baseline_minutes : {<<>>} \cup {<<n>> : n \in -1..MaxMinutes}]

InitWindows ==
    /\ \/ pc = "windows_ending_at" /\ msg \in WindowInputs
       \/ pc = "analyze_from_service"
          /\ msg \in [start : ServiceInstants, end : ServiceInstants]
    /\ out = NoneStr
    /\ calls = <<>>
    /\ incident_logs = <<>>
    /\ baseline_logs = <<>>
    /\ clusters = <<>>
    /\ rank_limit = 10
    /\ score_limit = ScoreLimit
    /\ top_clusters = <<>>
    /\ candidates = <<>>
    /\ ApmIdle

\* windows.py lines 62-79
WindowsEndingAt ==
    /\ pc = "windows_ending_at"
    /\ out' = windows_ending_at(msg.anchor, msg.window_minutes, msg.baseline_minutes)
    /\ pc' = "windows"
    /\ UNCHANGED <<calls, msg, logVars, apmVars>>

\* pipeline.py lines 212-217
ServiceWindows ==
    /\ pc = "analyze_from_service"
    /\ ~window_invalid(msg.start, msg.end)
    /\ out' = service_windows(msg.start, msg.end)
    /\ pc' = "symptom"
    /\ UNCHANGED <<calls, msg, logVars, apmVars>>

\* pipeline.py lines 213-214: ValueError("end must be after start")
ServiceWindowsFails ==
    /\ pc = "analyze_from_service"
    /\ window_invalid(msg.start, msg.end)
    /\ out' = [raised |-> "ValueError"]
    /\ pc' = "raised"
    /\ UNCHANGED <<calls, msg, logVars, apmVars>>

\* pipeline.py lines 449-453, the queries for one metric name: the query
\* of the baseline window and then the query of the incident window; one
\* that raises ends the attempt for the name
SymptomAttempts ==
    {<<Raised("query_metrics")>>,
     <<Returned("query_metrics"), Raised("query_metrics")>>,
     <<Returned("query_metrics"), Returned("query_metrics")>>}

\* pipeline.py lines 448-461: the first name whose queries returned
\* points ends the loop over the two names
SymptomQueries ==
    {<<Returned("query_metrics"), Returned("query_metrics")>>}
    \cup {first \o second : first \in SymptomAttempts, second \in SymptomAttempts}

\* pipeline.py line 221: _service_symptom queries the metrics of the
\* baseline and of the incident window for up to two metric names and
\* returns a symptom whether or not a query raised (lines 448-465)
ServiceSymptom ==
    /\ pc = "symptom"
    /\ \E queries \in SymptomQueries : calls' = calls \o queries
    /\ pc' = "logs"
    /\ UNCHANGED <<msg, out, logVars, apmVars>>

NextWindows ==
    \/ WindowsEndingAt
    \/ ServiceWindows
    \/ ServiceWindowsFails
    \/ ServiceSymptom

SpecWindows == InitWindows /\ [][NextWindows]_vars

(***************************************************************************)
(* A whole analyze_* run on the records the client returns: the log steps, *)
(* the attribution, the final sort and the candidates of the report.       *)
(***************************************************************************)
\* a window where one signature occurs ten times
RepeatedLogs == BigLogs \o [i \in 1..9 |-> BigLogs[1]]

RunIncidentLogs == SeqsUpTo(CoreLogs, 1) \cup {BigLogs, RepeatedLogs}

RunBaselineLogs == SeqsUpTo(CoreLogs, 1) \cup {Take(BigLogs, 3)}

RunSpanWindows ==
    {<<BigIncidentSpans, <<>>>>, <<BigIncidentSpans, BigBaselineSpans>>}
    \cup {<<s, <<>>>> : s \in SeqsUpTo(SpanPool, 1)}
    \cup {<<RaisingSpans, <<>>>>}

\* analyze_from_monitor ranks 10 clusters in latency mode, analyze_from_logs
\* 15 in latency mode, analyze_from_service 15 in the mode it is given
EntryPoints == {<<10, "latency">>, <<15, "latency">>, <<15, "errors">>}

Init ==
    /\ pc = "cluster"
    /\ msg = <<>>
    /\ out = NoneStr
    /\ calls = <<>>
    /\ incident_logs \in RunIncidentLogs
    /\ baseline_logs \in RunBaselineLogs
    /\ clusters = <<>>
    /\ \E e \in EntryPoints : rank_limit = e[1] /\ mode = e[2]
    /\ score_limit = ScoreLimit
    /\ top_clusters = <<>>
    /\ candidates = <<>>
    /\ scope_complete \in BOOLEAN
    /\ \E w \in RunSpanWindows : incident_spans = w[1] /\ baseline_spans = w[2]
    /\ apm_findings = NoFindings
    /\ apm_candidates = <<>>
    /\ report_candidates = <<>>

Next ==
    \/ ClusterLogs
    \/ MergeBaseline
    \/ RankClusters
    \/ ScoreLogClusters
    \/ ApmDisabled
    \/ SearchSpansFails
    \/ SearchSpans
    \/ ApmAttribution
    \/ ApmAttributionRaises
    \/ CombineCandidates
    \/ SearchEvents
    \/ SearchEventsFails
    \/ BuildFindings

Spec == Init /\ [][Next]_vars

(***************************************************************************)
(* The three entry points from their first line, with the queries they     *)
(* make of the client: msg is the call's input, calls the queries made so  *)
(* far, and the records the client returns for the two windows are         *)
(* incident_logs, baseline_logs, incident_spans and baseline_spans.  Any   *)
(* query may raise DatadogError instead of returning.                      *)
(***************************************************************************)
\* monitor = client.get_monitor(monitor_id), line 33
GetMonitor ==
    /\ pc = "windows"
    /\ msg.entry = "analyze_from_monitor"
    /\ calls' = Append(calls, Returned("get_monitor"))
    /\ pc' = "metrics"
    /\ UNCHANGED <<msg, out, logVars, apmVars>>

GetMonitorFails ==
    /\ pc = "windows"
    /\ msg.entry = "analyze_from_monitor"
    /\ calls' = Append(calls, Raised("get_monitor"))
    /\ out' = [raised |-> "DatadogError"]
    /\ pc' = "raised"
    /\ UNCHANGED <<msg, logVars, apmVars>>

\* lines 38-39: the metric queries of the baseline and the incident window
MonitorMetrics ==
    /\ pc = "metrics"
    /\ calls' = calls \o <<Returned("query_metrics"), Returned("query_metrics")>>
    /\ pc' = "logs"
    /\ UNCHANGED <<msg, out, logVars, apmVars>>

\* lines 38-39: the first or the second metric query raises
MonitorMetricsFails ==
    /\ pc = "metrics"
    /\ \E issued \in 1..2 :
          calls' = calls \o [i \in 1..issued |-> IF i = issued THEN Raised("query_metrics")
                                                 ELSE Returned("query_metrics")]
    /\ out' = [raised |-> "DatadogError"]
    /\ pc' = "raised"
    /\ UNCHANGED <<msg, logVars, apmVars>>

\* the place of the search of the incident window: lines 55, 129, 224
AtIncidentLogs ==
    \/ pc = "logs"
    \/ pc = "windows" /\ msg.entry = "analyze_from_logs"

SearchIncidentLogs_ThenClusters ==
    /\ AtIncidentLogs
    /\ calls' = Append(calls, Returned("search_logs"))
    /\ pc' = "cluster"
    /\ UNCHANGED <<msg, out, logVars, apmVars>>

\* incident_logs = client.search_logs(...), lines 55-59, 129-133, 224-228
SearchIncidentLogs ==
    /\ AtIncidentLogs
    /\ calls' = Append(calls, Returned("search_logs"))
    /\ pc' = "baseline_logs"
    /\ UNCHANGED <<msg, out, logVars, apmVars>>

\* baseline_logs = client.search_logs(...), lines 60-64, 134-138, 229-233
SearchBaselineLogs ==
    /\ pc = "baseline_logs"
    /\ calls' = Append(calls, Returned("search_logs"))
    /\ pc' = "cluster"
    /\ UNCHANGED <<msg, out, logVars, apmVars>>

\* one of the two log searches raises
SearchLogsFails ==
    /\ AtIncidentLogs \/ pc = "baseline_logs"
    /\ calls' = Append(calls, Raised("search_logs"))
    /\ out' = [raised |-> "DatadogError"]
    /\ pc' = "raised"
    /\ UNCHANGED <<msg, logVars, apmVars>>

EntryAnchor == 1700000000

\* the inputs of analyze_from_monitor and analyze_from_logs, and of
\* analyze_from_service
EntryInputs ==
    [entry : {"analyze_from_monitor", "analyze_from_logs"}, anchor : {EntryAnchor},
     window_minutes : {1}, baseline_minutes : {<<>>, <<2>>}]

ServiceInputs == [entry : {"analyze_from_service"}, start : {0}, end : {0, 500}]

EntryIncidentLogs == {<<>>, <<BigLogs[1]>>, Take(BigLogs, 3)}

EntryBaselineLogs == {<<>>, <<BigLogs[1]>>}

EntrySpanWindows ==
    {<<<<>>, <<>>>>, <<BigIncidentSpans, BigBaselineSpans>>, <<RaisingSpans, <<>>>>}

InitEntry ==
    /\ \/ pc = "windows_ending_at" /\ msg \in EntryInputs
       \/ pc = "analyze_from_service" /\ msg \in ServiceInputs
    /\ out = NoneStr
    /\ calls = <<>>
    /\ incident_logs \in EntryIncidentLogs
    /\ baseline_logs \in EntryBaselineLogs
    /\ clusters = <<>>
    /\ rank_limit = IF msg.entry = "analyze_from_monitor" THEN 10 ELSE 15
    /\ score_limit = ScoreLimit
    /\ top_clusters = <<>>
    /\ candidates = <<>>
    /\ mode \in IF msg.entry = "analyze_from_service" THEN Modes ELSE {"latency"}
    /\ scope_complete \in BOOLEAN
    \* line 140: without incident logs the scope of analyze_from_logs is empty
    /\ (msg.entry = "analyze_from_logs" /\ incident_logs = <<>>) => ~scope_complete
    /\ \E w \in EntrySpanWindows : incident_spans = w[1] /\ baseline_spans = w[2]
    /\ apm_findings = NoFindings
    /\ apm_candidates = <<>>
    /\ report_candidates = <<>>

NextEntry ==
    \/ WindowsEndingAt
    \/ ServiceWindows
    \/ ServiceWindowsFails
    \/ ServiceSymptom
    \/ GetMonitor
    \/ GetMonitorFails
    \/ MonitorMetrics
    \/ MonitorMetricsFails
    \/ SearchIncidentLogs
    \/ SearchBaselineLogs
    \/ SearchLogsFails
    \/ ClusterLogs
    \/ MergeBaseline
    \/ RankClusters
    \/ ScoreLogClusters
    \/ ApmDisabled
    \/ SearchSpansFails
    \/ SearchSpans
    \/ ApmAttribution
    \/ ApmAttributionRaises
    \/ CombineCandidates
    \/ SearchEvents
    \/ SearchEventsFails
    \/ BuildFindings

SpecEntry == InitEntry /\ [][NextEntry]_vars

(***************************************************************************)
(* DatadogClient._request (datadog_client.py lines 39-69): msg is the      *)
(* configuration, calls the attempts on the session so far with what the   *)
(* session answered, out the loop's variables and then the result.  The    *)
(* body of a response is the value its json() returns.                     *)
(***************************************************************************)
\* line 58
RetryableStatuses == {429, 500, 502, 503, 504}

\* the status codes the session answers with
Statuses == {200, 204, 399, 400, 403, 404, 429, 500, 501, 502, 503, 504}

Bodies == {"a", "b"}

\* an attempt the session answered, and one where it raised a
\* requests.RequestException
Answered(status, body) ==
    [query |-> "session.request", raised |-> FALSE, status |-> status, body |-> body]

TransportError == [query |-> "session.request", raised |-> TRUE]

\* line 47
NoLastErr == [kind |-> "None"]

\* line 59
RetryableError(status) == [kind |-> "retryable status", status |-> status]

\* line 61
StatusError(status) == [kind |-> "status", status |-> status]

\* line 63, the exception of the session
RequestException == [kind |-> "RequestException"]


\* line 65
exhausted(attempt, max_retries) == attempt >= max_retries

\* line 67, in half seconds: min(8.0, 0.5 * (2**attempt))
sleep_halves(attempt) == IF 2 ^ attempt < 16 THEN 2 ^ attempt ELSE 16

failed_NoRetry(err) ==
    /\ out' = [attempt |-> out.attempt, last_err |-> err, sleeps |-> out.sleeps]
    /\ pc' = "failed"

\* lines 63-68: the error is kept, and the loop ends or sleeps and goes on
failed(err) ==
    /\ out' = [attempt |-> IF exhausted(out.attempt, msg.max_retries) THEN out.attempt
                           ELSE out.attempt + 1,
               last_err |-> err,
               sleeps |-> IF exhausted(out.attempt, msg.max_retries) THEN out.sleeps
                          ELSE Append(out.sleeps, sleep_halves(out.attempt))]
    /\ pc' = IF exhausted(out.attempt, msg.max_retries) THEN "failed" ELSE "attempt"

\* line 48: range(max_retries + 1) has a next attempt
InLoop == pc = "attempt" /\ out.attempt < msg.max_retries + 1

\* lines 50-62: the session answers with a status below 400
AttemptReturns ==
    /\ InLoop
    /\ \E status \in Statuses, body \in Bodies :
          /\ status \notin RetryableStatuses
          /\ status < 400
          /\ calls' = Append(calls, Answered(status, body))
          /\ out' = [attempt |-> out.attempt, last_err |-> out.last_err,
                     sleeps |-> out.sleeps, returned |-> body]
    /\ pc' = "returned"
    /\ UNCHANGED <<msg, logVars, apmVars>>

\* lines 58-59 and 63-68
AttemptRetryableStatus ==
    /\ InLoop
    /\ \E status \in Statuses, body \in Bodies :
          /\ status \in RetryableStatuses
          /\ calls' = Append(calls, Answered(status, body))
          /\ failed(RetryableError(status))
    /\ UNCHANGED <<msg, logVars, apmVars>>

\* lines 60-61 and 63-68
AttemptErrorStatus ==
    /\ InLoop
    /\ \E status \in Statuses, body \in Bodies :
          /\ status \notin RetryableStatuses
          /\ status >= 400
          /\ calls' = Append(calls, Answered(status, body))
          /\ failed(StatusError(status))
    /\ UNCHANGED <<msg, logVars, apmVars>>

\* lines 50-57 and 63-68: session.request raises
AttemptTransportError ==
    /\ InLoop
    /\ calls' = Append(calls, TransportError)
    /\ failed(RequestException)
    /\ UNCHANGED <<msg, logVars, apmVars>>

\* line 69, after the break of line 66 or after a loop without attempts:
\* DatadogError("request failed: ...: {last_err}")
RequestRaises ==
    /\ pc = "failed" \/ (pc = "attempt" /\ ~InLoop)
    /\ out' = [attempt |-> out.attempt, last_err |-> out.last_err,
               sleeps |-> out.sleeps, raised |-> "DatadogError"]
    /\ pc' = "raised"
    /\ UNCHANGED <<calls, msg, logVars, apmVars>>

MaxRetries == 2

InitRequest ==
    /\ pc = "attempt"
    /\ msg \in [max_retries : -1..MaxRetries]
    /\ out = [attempt |-> 0, last_err |-> NoLastErr, sleeps |-> <<>>]
    /\ calls = <<>>
    /\ incident_logs = <<>>
    /\ baseline_logs = <<>>
    /\ clusters = <<>>
    /\ rank_limit = 10
    /\ score_limit = ScoreLimit
    /\ top_clusters = <<>>
    /\ candidates = <<>>
    /\ ApmIdle

NextRequest ==
    \/ AttemptReturns
    \/ AttemptRetryableStatus
    \/ AttemptErrorStatus
    \/ AttemptTransportError
    \/ RequestRaises

SpecRequest == InitRequest /\ [][NextRequest]_vars

(***************************************************************************)
(* The paged searches of the client.  msg is the call: the operation, its  *)
(* limit and max_pages; calls holds the requests made through _request,    *)
(* each with the cursor and the limit of its body and with the data and    *)
(* the meta.page.after of its response (NoneStr when absent or None); out  *)
(* is the loop's state: the records collected, the cursor, the number of   *)
(* requests made.                                                          *)
(***************************************************************************)
PageLimit == 1000

\* datadog_client.py line 103: min(int(limit), 1000)
page_limit(limit) == IF limit < PageLimit THEN limit ELSE PageLimit

\* lines 100-107: the request for the next page and its response
page_request(cursor, limit, resp) ==
    [query |-> "_request", raised |-> FALSE,
     cursor |-> IF Truthy(cursor) THEN cursor ELSE NoneStr,
     limit |-> page_limit(limit), data |-> resp.data, after |-> resp.after]

\* line 108: resp.get("data") or []
page_data(resp) == IF resp.data = NoneStr THEN <<>> ELSE resp.data

paged_KeepsCursor(state, resp) ==
    [items |-> state.items \o page_data(resp), cursor |-> state.cursor,
     pages |-> state.pages + 1]

\* lines 108-114: the state of the loop after a page
paged(state, resp) ==
    [items |-> state.items \o page_data(resp),
     cursor |-> IF Truthy(resp.after) THEN resp.after ELSE state.cursor,
     pages |-> state.pages + 1]

\* the responses of the search endpoints: data absent or a list of
\* records, after absent, empty or a cursor
PageResponses ==
    [data : {NoneStr, <<"1", "2">>, <<"3">>},
     after : {NoneStr, <<>>, <<"c", "1">>, <<"c", "2">>}]

\* search_logs, lines 99-114: one turn of the loop; a response without
\* after ends the loop and the collected records are returned
LogsPage ==
    /\ pc = "page"
    /\ msg.op = "search_logs"
    /\ out.pages < msg.max_pages
    /\ \E resp \in PageResponses :
          /\ calls' = Append(calls, page_request(out.cursor, msg.limit, resp))
          /\ out' = paged(out, resp)
          /\ pc' = IF Truthy(resp.after) THEN "page" ELSE "returned"
    /\ UNCHANGED <<msg, logVars, apmVars>>

\* search_logs, line 107: _request raises DatadogError, which leaves
\* search_logs
LogsPageRaises ==
    /\ pc = "page"
    /\ msg.op = "search_logs"
    /\ out.pages < msg.max_pages
    /\ calls' = Append(calls, Raised("_request"))
    /\ pc' = "raised"
    /\ UNCHANGED <<msg, out, logVars, apmVars>>

\* search_logs, lines 99 and 115: the loop has made max_pages requests
LogsReturn ==
    /\ pc = "page"
    /\ msg.op = "search_logs"
    /\ out.pages >= msg.max_pages
    /\ pc' = "returned"
    /\ UNCHANGED <<calls, msg, out, logVars, apmVars>>

SpansPage_FirstPageOnly ==
    /\ pc = "page"
    /\ msg.op = "search_spans"
    /\ out.pages < msg.max_pages
    /\ \E resp \in PageResponses :
          /\ calls' = Append(calls, page_request(out.cursor, msg.limit, resp))
          /\ out' = paged(out, resp)
          /\ pc' = "returned"
    /\ UNCHANGED <<msg, logVars, apmVars>>

\* search_spans: a turn of its loop, paging with a cursor like search_logs.
\* datadog_client.py has no search_spans; pipeline.py (line 331) and the
\* tests call it, and its loop is taken from its documented behaviour.
SpansPage ==
    /\ pc = "page"
    /\ msg.op = "search_spans"
    /\ out.pages < msg.max_pages
    /\ \E resp \in PageResponses :
          /\ calls' = Append(calls, page_request(out.cursor, msg.limit, resp))
          /\ out' = paged(out, resp)
          /\ pc' = IF Truthy(resp.after) THEN "page" ELSE "returned"
    /\ UNCHANGED <<msg, logVars, apmVars>>

\* search_spans: _request raises DatadogError
SpansPageRaises ==
    /\ pc = "page"
    /\ msg.op = "search_spans"
    /\ out.pages < msg.max_pages
    /\ calls' = Append(calls, Raised("_request"))
    /\ pc' = "raised"
    /\ UNCHANGED <<msg, out, logVars, apmVars>>

\* search_spans: the loop has made max_pages requests
SpansReturn ==
    /\ pc = "page"
    /\ msg.op = "search_spans"
    /\ out.pages >= msg.max_pages
    /\ pc' = "returned"
    /\ UNCHANGED <<calls, msg, out, logVars, apmVars>>

MaxPages == 2

\* limit=100 of the tests, the default 1000 and a limit above it
Limits == {100, 1000, 5000}

InitPaging ==
    /\ pc = "page"
    /\ msg \in [op : {"search_logs", "search_spans"}, limit : Limits,
                 max_pages : 0..MaxPages]
    /\ out = [items |-> <<>>, cursor |-> NoneStr, pages |-> 0]
    /\ calls = <<>>
    /\ incident_logs = <<>>
    /\ baseline_logs = <<>>
    /\ clusters = <<>>
    /\ rank_limit = 10
    /\ score_limit = ScoreLimit
    /\ top_clusters = <<>>
    /\ candidates = <<>>
    /\ ApmIdle

NextPaging ==
    \/ LogsPage
    \/ LogsPageRaises
    \/ LogsReturn
    \/ SpansPage
    \/ SpansPageRaises
    \/ SpansReturn

SpecPaging == InitPaging /\ [][NextPaging]_vars

(***************************************************************************)
(* The claims.                                                             *)
(***************************************************************************)
IsNew(c) == c.count_baseline = 0 /\ c.count_incident > 0

IsRecurring(c) == c.count_baseline > 0

Min(a, b) == IF a < b THEN a ELSE b

\* C1: rank_clusters places every new signature (count_baseline = 0,
\* count_incident > 0) before every recurring one (count_baseline > 0),
\* whatever the counts: no recurring cluster precedes a new one in the
\* ranked list, and none is kept while a new one is cut off.
C1_NewBeforeRecurring ==
    pc = "score" =>
        /\ \A i, j \in 1..Len(top_clusters) :
               IsNew(top_clusters[i]) /\ IsRecurring(top_clusters[j]) => i < j
        /\ (\E j \in 1..Len(top_clusters) : IsRecurring(top_clusters[j])) =>
               \A k \in 1..Len(clusters) :
                   IsNew(clusters[k]) =>
                       \E i \in 1..Len(top_clusters) : top_clusters[i] = clusters[k]

\* the fields of a record as the claim reads them: the flat key, else the
\* key nested under error, else the bare exception / stack_trace string
C2_Nested(attrs, v) == IF attrs.error.kind = "dict" THEN v ELSE NoneStr

C2_Type(attrs) ==
    Or(Or(attrs.error_type, C2_Nested(attrs, attrs.error.type)), attrs.exception)

C2_Message(attrs) ==
    Or(attrs.error_message, C2_Nested(attrs, attrs.error.message))

C2_Stack(attrs) ==
    Or(Or(attrs.error_stack, C2_Nested(attrs, attrs.error.stack)), attrs.stack_trace)

C2_Template(attrs) ==
    Take(Join(type_part(C2_Type(attrs))
              \o msg_part(C2_Message(attrs), raw_message(attrs))
              \o stack_part(hash_stack(C2_Stack(attrs)))),
         MaxTemplateLen)

\* C2: the structured error fields take precedence over the raw message in
\* both shapes, flat and nested: the template of a record is type= of its
\* error type (if any), msg= of its error message if it has one and of its
\* raw message otherwise, and stack= of its stack (if any).
C2_ErrorFieldsTakePrecedence ==
    (pc = "merge" /\ Len(incident_logs) = 1) =>
        clusters[1].template = C2_Template(incident_logs[1])

\* the number of baseline records whose template has the fingerprint fp
C3_BaselineCount(fp) ==
    Cardinality({k \in 1..Len(baseline_logs) :
                    fingerprint(template(baseline_logs[k])) = fp})

C3_Merged ==
    /\ Len(clusters') = Len(clusters)
    /\ \A i \in 1..Len(clusters) :
           /\ clusters'[i].fingerprint = clusters[i].fingerprint
           /\ clusters'[i].template = clusters[i].template
           /\ clusters'[i].count_incident = clusters[i].count_incident
           /\ clusters'[i].count_baseline = C3_BaselineCount(clusters[i].fingerprint)

\* C3: merge_baseline_counts on a fresh cluster map returns a map with the
\* keys of the incident map (baseline-only fingerprints are dropped, none is
\* added), where count_baseline is the number of baseline records whose
\* template has the cluster's fingerprint and count_incident is unchanged.
C3_MergeSetsBaselineCounts == [][MergeBaseline => C3_Merged]_vars

\* a cluster has a baseline count and a baseline-only fingerprint was dropped
C3_Witness ==
    /\ pc = "rank"
    /\ \E i \in 1..Len(clusters) : clusters[i].count_baseline >= 1
    /\ \E k \in 1..Len(baseline_logs) :
           IndexOf(clusters, fingerprint(template(baseline_logs[k]))) = 0

C4_Templates == [k \in 1..Len(incident_logs) |-> template(incident_logs[k])]

C4_KeysAndLengths ==
    \A i \in 1..Len(clusters) :
        /\ clusters[i].fingerprint = fingerprint(clusters[i].template)
        /\ Len(clusters[i].fingerprint) = 12
        /\ \A k \in 1..12 : clusters[i].fingerprint[k] \in Digits \cup {"a", "b", "c", "d", "e", "f"}
        /\ Len(clusters[i].template) <= 500
        /\ \A j \in 1..Len(clusters) :
               clusters[i].fingerprint = clusters[j].fingerprint => i = j

\* the clusters count the records by template: cluster by cluster, the count
\* is the number of records with the cluster's template
C4_CountedBy(tpls) ==
    /\ \A k \in 1..Len(tpls) : \E i \in 1..Len(clusters) : clusters[i].template = tpls[k]
    /\ \A i \in 1..Len(clusters) :
           clusters[i].count_incident =
               Cardinality({k \in 1..Len(tpls) : tpls[k] = clusters[i].template})

\* the clusters count the records by the fingerprint of their templates
C4_CountedByFingerprint(tpls) ==
    /\ \A k \in 1..Len(tpls) :
           \E i \in 1..Len(clusters) : clusters[i].fingerprint = fingerprint(tpls[k])
    /\ \A i \in 1..Len(clusters) :
           /\ clusters[i].count_incident =
                  Cardinality({k \in 1..Len(tpls) :
                                  fingerprint(tpls[k]) = clusters[i].fingerprint})
           /\ \E k \in 1..Len(tpls) : tpls[k] = clusters[i].template

\* C4 as stated: two records are counted in the same cluster iff their
\* templates are identical; the key of a cluster is its fingerprint, the
\* 12-hex hash of its template, and a template has at most 500 characters.
C4_SameClusterIffSameTemplate ==
    pc = "merge" => C4_KeysAndLengths /\ C4_CountedBy(C4_Templates)

\* C4 as amended: two records are counted in the same cluster iff the
\* fingerprints of their templates are equal (identical templates always
\* are, different templates when their hashes collide); the key of a
\* cluster is its fingerprint, the 12-hex hash of its template, and a
\* template has at most 500 characters.
C4_SameClusterIffSameFingerprint ==
    pc = "merge" => C4_KeysAndLengths /\ C4_CountedByFingerprint(C4_Templates)

\* two different records with one template are counted in one cluster
C4_Witness ==
    /\ pc = "merge"
    /\ Len(incident_logs) = 2
    /\ incident_logs[1].message # incident_logs[2].message
    /\ template(incident_logs[1]) = template(incident_logs[2])
    /\ Len(clusters) = 1
    /\ clusters[1].count_incident = 2

\* C5: normalize_message replaces every run of digits left by the UUID, hex
\* and IP substitutions, also one adjacent to letters or underscores, so
\* its output holds no digit.
C5_NoDigitSurvives ==
    pc = "normalized" => \A i \in 1..Len(out) : out[i] \notin Digits

\* the score the claim gives a cluster, in integers
C6_Score(inc, base) ==
    IF base = 0 /\ inc > 0 THEN Rat(180 + Min(20, inc), 200)
    ELSE IF base > 0
         THEN IF inc <= base THEN RZero
              ELSE IF 2 * inc >= 11 * base THEN Rat(9, 10)
              ELSE Rat(inc - base, 5 * base)
         ELSE RZero

IsKind(c, kind) == c.kind = kind

IsEndpoint(c) == IsKind(c, "endpoint")

IsDependency(c) == IsKind(c, "dependency")

\* the attribution has run to its end (no missing scope, no DatadogError)
Attributed == pc \in {"combine", "events", "findings", "done"} /\ "counts" \in DOMAIN apm_findings

InUnit(score) == RLeq(RZero, score) /\ RLeq(score, RInt(1))

C7_AllIn(cands) ==
    \A i \in 1..Len(cands) :
        /\ cands[i].kind \in {"logs", "endpoint", "dependency"}
        /\ InUnit(cands[i].score)

C8_Lists(inc_spans, base_spans) ==
    score_log_clusters(top_clusters, score_limit)
    \o (IF Attributed
        THEN endpoint_candidates(mode, inc_spans, base_spans)
             \o dependency_candidates(inc_spans, base_spans)
        ELSE <<>>)

\* the place of L[i] after a stable sort by score descending
C8_Place(L, i) ==
    1 + Cardinality({j \in 1..Len(L) :
                        \/ RLess(L[i].score, L[j].score)
                        \/ j < i /\ L[j].score = L[i].score})

C8_FirstOfStableOrder(L, F) ==
    /\ Len(F) = Min(Len(L), 20)
    /\ \A i \in 1..Len(L) : C8_Place(L, i) <= 20 => F[C8_Place(L, i)] = L[i]
    /\ \A i \in 1..(Len(F) - 1) : RLeq(F[i + 1].score, F[i].score)

\* C8: findings.candidates is the concatenation of the log, endpoint and
\* dependency candidate lists sorted by score descending with a stable
\* sort (equal scores keep their order in the concatenation), cut to its
\* first 20 entries.
C8_StableTop20 ==
    pc = "done" =>
        C8_FirstOfStableOrder(C8_Lists(normalized(incident_spans),
                                       normalized(baseline_spans)),
                              report_candidates)

\* more than 20 candidates, and two of different kinds with one score
C8_Witness ==
    /\ pc = "done"
    /\ Len(candidates) > 20
    /\ Len(report_candidates) = 20
    /\ \E i \in 1..19 :
           /\ report_candidates[i].score = report_candidates[i + 1].score
           /\ report_candidates[i].kind # report_candidates[i + 1].kind

\* the place of rows[i] among the rows by delta descending
C9_Place(rows, i) ==
    1 + Cardinality({j \in 1..Len(rows) :
                        \/ RLess(rows[i].delta, rows[j].delta)
                        \/ j < i /\ rows[j].delta = rows[i].delta})

C9_Regressions(rows) ==
    {i \in 1..Len(rows) : RLess(RZero, rows[i].delta) /\ C9_Place(rows, i) <= 5}

C9_Score(delta) ==
    IF mode = "errors" THEN RMin(Rat(95, 100), RMul(delta, RInt(2)))
    ELSE RMin(Rat(95, 100), RDiv(delta, RInt(500)))

C9_Exactly(rows, eps) ==
    /\ Len(eps) = Cardinality(C9_Regressions(rows))
    /\ \A i \in C9_Regressions(rows) :
           \E k \in 1..Len(eps) :
               /\ eps[k].key = rows[i].res
               /\ eps[k].delta = rows[i].delta
               /\ eps[k].score = C9_Score(rows[i].delta)
    /\ \A k \in 1..Len(eps) : RLess(RZero, eps[k].delta)

\* C9: the endpoint candidates are exactly the endpoints of strictly
\* positive delta among the 5 endpoints of largest delta (incident minus
\* baseline p95 in latency mode, error rate in errors mode; equal deltas in
\* the order of the incident endpoints), each with the score
\* min(0.95, delta/500) or, in errors mode, min(0.95, delta/0.5).
C9_EndpointCandidates ==
    (pc = "combine" /\ Attributed) =>
        C9_Exactly(endpoint_rows_of(mode, normalized(incident_spans),
                                    normalized(baseline_spans)),
                   SelectSeq(apm_candidates, IsEndpoint))

\* six endpoints regress and five become candidates
C9_Witness ==
    /\ pc = "combine"
    /\ Attributed
    /\ Len(SelectSeq(apm_candidates, IsEndpoint)) = 5
    /\ Len(endpoint_rows_of(mode, normalized(incident_spans),
                            normalized(baseline_spans))) > 5

\* clamp(duration_delta/2000 + error_rate_delta/0.5, 0, 0.99)
C10_Clamped(dur_delta, err_delta) ==
    RMin(Rat(99, 100),
         RMax(RZero, RAdd(RDiv(dur_delta, RInt(2000)), RMul(err_delta, RInt(2)))))

\* C10: the score of every dependency candidate is
\* clamp(duration_delta/2000 + error_rate_delta/0.5, 0, 0.99); a dependency
\* whose unclamped value is at least 0.99 has the score 0.99.
C10_DependencyScore ==
    (pc = "combine" /\ Attributed) =>
        \A k \in 1..Len(apm_candidates) :
            apm_candidates[k].kind = "dependency" =>
                apm_candidates[k].score =
                    C10_Clamped(apm_candidates[k].duration_delta_ms,
                                apm_candidates[k].error_rate_delta)

\* the dependency rows of the run
C11_Rows ==
    dep_rows(dependencies_of(normalized(incident_spans)),
             dependencies_of(normalized(baseline_spans)))

C11_Qualifies(row) == RLess(RZero, row.dur_delta) \/ RLess(RZero, row.err_delta)

\* the place of rows[i] among the qualifying rows by (duration delta,
\* error-rate delta) descending
C11_Place(rows, i) ==
    1 + Cardinality({j \in 1..Len(rows) :
                        /\ C11_Qualifies(rows[j])
                        /\ \/ DepGt(rows[j], rows[i])
                           \/ j < i /\ ~DepGt(rows[i], rows[j])})

C11_Kept(rows) ==
    {i \in 1..Len(rows) : C11_Qualifies(rows[i]) /\ C11_Place(rows, i) <= 7}

C11_Exactly(rows, deps) ==
    /\ Len(deps) = Cardinality(C11_Kept(rows))
    /\ \A i \in C11_Kept(rows) : \E k \in 1..Len(deps) : deps[k].key = rows[i].dep

\* C11: the dependency candidates are the first 7, by (duration delta,
\* error-rate delta) descending, of the incident dependencies with a
\* positive duration delta or a positive error-rate delta: a qualifying
\* dependency is left out only when 7 qualifying ones precede it.
C11_FirstSevenQualifying ==
    (pc = "combine" /\ Attributed) =>
        C11_Exactly(C11_Rows, SelectSeq(apm_candidates, IsDependency))

C12_Has(groups, key) == \E i \in 1..Len(groups) : groups[i].key = key

C12_Group(groups, key) == groups[CHOOSE i \in 1..Len(groups) : groups[i].key = key]

C12_Zero(x) == IF x = NoneStr THEN RZero ELSE x

\* the metric of an endpoint group in the mode of the run
C12_Metric(stats) == IF mode = "errors" THEN stats.error_rate ELSE stats.p95_ms

\* a candidate of a group without baseline carries the incident metrics
C12_IncidentOnly(c, e_inc, e_base, d_inc, d_base) ==
    /\ (c.kind = "endpoint" /\ ~C12_Has(e_base, c.key)) =>
            c.delta = C12_Zero(C12_Metric(C12_Group(e_inc, c.key)))
    /\ (c.kind = "dependency" /\ ~C12_Has(d_base, c.key)) =>
            /\ c.duration_delta_ms = C12_Zero(C12_Group(d_inc, c.key).total_duration_ms)
            /\ c.error_rate_delta = C12_Group(d_inc, c.key).error_rate

\* the rows of the findings name incident groups, without baseline
\* statistics where the baseline has no such group
C12_Rows(findings, e_inc, e_base, d_inc, d_base) ==
    /\ \A i \in 1..Len(findings.top_endpoints) :
           /\ C12_Has(e_inc, findings.top_endpoints[i].resource)
           /\ ~C12_Has(e_base, findings.top_endpoints[i].resource) =>
                  findings.top_endpoints[i].baseline = NoStats
    /\ \A i \in 1..Len(findings.top_dependencies) :
           /\ C12_Has(d_inc, findings.top_dependencies[i].dependency)
           /\ ~C12_Has(d_base, findings.top_dependencies[i].dependency) =>
                  findings.top_dependencies[i].baseline = NoStats

C12_Holds(cands, findings, e_inc, e_base, d_inc, d_base) ==
    /\ \A k \in 1..Len(cands) :
           /\ C12_IncidentOnly(cands[k], e_inc, e_base, d_inc, d_base)
           /\ cands[k].kind = "endpoint" => C12_Has(e_inc, cands[k].key)
           /\ cands[k].kind = "dependency" => C12_Has(d_inc, cands[k].key)
    /\ C12_Rows(findings, e_inc, e_base, d_inc, d_base)

\* C12: an endpoint or dependency group of the incident window without a
\* group in the baseline window is compared with zeros, so its deltas are
\* its incident metrics; a group of the baseline window alone gives no
\* candidate and no top_endpoints or top_dependencies row.
C12_EmptyBaseline ==
    (pc = "combine" /\ Attributed) =>
        C12_Holds(apm_candidates, apm_findings,
                  endpoints_of(normalized(incident_spans)),
                  endpoints_of(normalized(baseline_spans)),
                  dependencies_of(normalized(incident_spans)),
                  dependencies_of(normalized(baseline_spans)))

\* candidates of an endpoint and of a dependency the baseline window does
\* not have, and a baseline endpoint the incident window does not have
C12_Seen(cands, e_inc, e_base, d_base) ==
    /\ \E k \in 1..Len(cands) : cands[k].kind = "endpoint" /\ ~C12_Has(e_base, cands[k].key)
    /\ \E k \in 1..Len(cands) : cands[k].kind = "dependency" /\ ~C12_Has(d_base, cands[k].key)
    /\ \E i \in 1..Len(e_base) : ~C12_Has(e_inc, e_base[i].key)
    /\ d_base # <<>>

C12_Witness ==
    /\ pc = "combine"
    /\ Attributed
    /\ C12_Seen(apm_candidates, endpoints_of(normalized(incident_spans)),
                endpoints_of(normalized(baseline_spans)),
                dependencies_of(normalized(baseline_spans)))

C13_NonEmpty(x) == x # NoneStr /\ x # <<>>

\* the key the specification gives a span
C13_Key(s) ==
    IF C13_NonEmpty(s.peer_service)
    THEN <<"p", "e", "e", "r", "_", "s", "e", "r", "v", "i", "c", "e", ":">> \o s.peer_service
    ELSE IF C13_NonEmpty(s.span_type) THEN <<"t", "y", "p", "e", ":">> \o s.span_type
    ELSE IF C13_NonEmpty(s.name) THEN <<"n", "a", "m", "e", ":">> \o s.name
    ELSE NoneStr

C13_Keyed(spans, k) == {i \in 1..Len(spans) : C13_Key(spans[i]) = k}

C13_Grouped(spans, groups) ==
    /\ \A i \in 1..Len(spans) :
           C13_Key(spans[i]) # NoneStr =>
               \E g \in 1..Len(groups) : groups[g].key = C13_Key(spans[i])
    /\ \A g \in 1..Len(groups) :
           /\ groups[g].key # NoneStr
           /\ groups[g].count = Cardinality(C13_Keyed(spans, groups[g].key))
           /\ groups[g].count > 0
           /\ \A h \in 1..Len(groups) : groups[h].key = groups[g].key => h = g

\* C13: the dependency key of a span is peer_service:<peer_service> when
\* peer_service is non-empty, else type:<span_type> when span_type is
\* non-empty, else name:<name> when name is non-empty, else none;
\* group_dependency_stats has one group per key, counting the spans of
\* that key, and counts a span without key in no group.
C13_DependencyKeys ==
    pc = "grouped" =>
        /\ \A i \in 1..Len(out.spans) :
               dependency_key(out.spans[i]) = C13_Key(out.spans[i])
        /\ C13_Grouped(out.spans, out.dependencies)

\* a span with a peer service and a type, a second one whose fields are
\* empty strings, and one group
C13_Witness ==
    /\ pc = "grouped"
    /\ \E i \in 1..Len(out.spans) :
           C13_NonEmpty(out.spans[i].peer_service) /\ C13_NonEmpty(out.spans[i].span_type)
    /\ \E i \in 1..Len(out.spans) :
           out.spans[i].peer_service = <<>> /\ C13_Key(out.spans[i]) = NoneStr
    /\ Len(out.dependencies) = 1

C14_Of(spans, r) == {i \in 1..Len(spans) : spans[i].resource = r}

\* the non-empty trace ids of the spans of resource r, in input order
C14_TraceIds(spans, r) ==
    LET traced(s) == s.resource = r /\ C13_NonEmpty(s.trace_id)
        with == SelectSeq(spans, traced)
    IN  [i \in 1..Len(with) |-> with[i].trace_id]

RECURSIVE C14_Counted(_, _)
C14_Counted(groups, n) ==
    IF n = 0 THEN 0 ELSE groups[n].count + C14_Counted(groups, n - 1)

C14_Group(spans, g, ids) ==
    /\ C13_NonEmpty(g.key)
    /\ g.count = Cardinality(C14_Of(spans, g.key))
    /\ g.error_count = Cardinality({i \in C14_Of(spans, g.key) : spans[i].error = "True"})
    /\ g.error_count <= g.count
    /\ g.error_rate = Rat(g.error_count, g.count)
    /\ RLeq(RZero, g.error_rate) /\ RLeq(g.error_rate, RInt(1))
    /\ Len(g.sample_trace_ids) = Min(5, Len(ids))
    /\ \A n \in 1..Len(g.sample_trace_ids) : g.sample_trace_ids[n] = ids[n]

C14_Groups(spans, groups) ==
    /\ \A i \in 1..Len(spans) :
           C13_NonEmpty(spans[i].resource) =>
               \E g \in 1..Len(groups) : groups[g].key = spans[i].resource
    /\ \A g \in 1..Len(groups) :
           /\ C14_Group(spans, groups[g], C14_TraceIds(spans, groups[g].key))
           /\ \A h \in 1..Len(groups) : groups[h].key = groups[g].key => h = g
    /\ C14_Counted(groups, Len(groups)) =
           Cardinality({i \in 1..Len(spans) : C13_NonEmpty(spans[i].resource)})

\* C14: group_endpoint_stats returns one group per distinct non-empty
\* resource; count is the number of spans of the resource, and the counts
\* sum to the number of spans with a resource; error_count is the number
\* of the group's spans whose error flag is true, at most count, and
\* error_rate = error_count/count lies in [0, 1]; sample_trace_ids are the
\* first non-empty trace ids of the group in input order, at most 5.
C14_EndpointGroups ==
    pc = "grouped" => C14_Groups(out.spans, out.endpoints)

\* a group of more than five traced spans, some of them errors, next to a
\* span without resource
C14_Witness ==
    /\ pc = "grouped"
    /\ \E g \in 1..Len(out.endpoints) :
           /\ Len(C14_TraceIds(out.spans, out.endpoints[g].key)) > 5
           /\ Len(out.endpoints[g].sample_trace_ids) = 5
           /\ 0 < out.endpoints[g].error_count
           /\ out.endpoints[g].error_count < out.endpoints[g].count
    /\ \E i \in 1..Len(out.spans) : out.spans[i].resource = NoneStr
    /\ Len(out.endpoints) = 2

\* the r-th smallest of xs, r in 1..Len(xs), defined without sorting
C15_Stat(xs, r) ==
    CHOOSE v \in {xs[i] : i \in 1..Len(xs)} :
        /\ Cardinality({i \in 1..Len(xs) : RLess(xs[i], v)}) < r
        /\ r <= Cardinality({i \in 1..Len(xs) : RLeq(xs[i], v)})

\* the linear interpolation at the fractional rank k (counted from 0)
C15_Interpolated(xs, k) ==
    RAdd(C15_Stat(xs, Floor(k) + 1),
         RMul(RSub(C15_Stat(xs, Ceil(k) + 1), C15_Stat(xs, Floor(k) + 1)),
              RSub(k, RInt(Floor(k)))))

C15_Expected(xs, p) ==
    IF p <= 0 THEN C15_Stat(xs, 1)
    ELSE IF p >= 100 THEN C15_Stat(xs, Len(xs))
    ELSE C15_Interpolated(xs, Rat((Len(xs) - 1) * p, 100))

\* C15: for non-empty xs, percentile(xs, p) is min(xs) when p <= 0, max(xs)
\* when p >= 100, and otherwise the linear interpolation between the two
\* order statistics that bracket the rank (n-1)*p/100; it lies between
\* min(xs) and max(xs) and does not depend on the order of xs;
\* percentile([1,2,3,4,5], 50) = 3.
C15_Percentile ==
    (pc = "percentiled" /\ msg.values # <<>>) =>
        /\ out = C15_Expected(msg.values, msg.p)
        /\ RLeq(C15_Stat(msg.values, 1), out)
        /\ RLeq(out, C15_Stat(msg.values, Len(msg.values)))
        /\ (msg.values = PercentileSample /\ msg.p = 50) => out = RInt(3)

\* values out of order, a rank between two of them, and a result that is
\* none of the values
C15_Witness ==
    /\ pc = "percentiled"
    /\ Len(msg.values) = 3
    /\ RLess(msg.values[2], msg.values[1])
    /\ msg.p = 95
    /\ \A i \in 1..3 : out # msg.values[i]

\* the raw duration of a span record
C16_Raw(attrs) ==
    IF "duration" \in DOMAIN attrs THEN attrs["duration"]
    ELSE IF "duration_ns" \in DOMAIN attrs THEN attrs["duration_ns"]
    ELSE IF "durationNano" \in DOMAIN attrs THEN attrs["durationNano"]
    ELSE PyNone

C16_Expected(d) ==
    IF d[1] > 10000 * d[2] THEN Rat(d[1], d[2] * 1000000) ELSE d

\* C16: a raw duration d > 10000 normalizes to duration_ms = d/1,000,000
\* and a raw duration d <= 10000, 10000 included, to duration_ms = d;
\* 50,000,000 gives 50 and 50 gives 50.
C16_UnitThreshold ==
    pc \in {"group", "grouped"} =>
        \A i \in 1..Len(msg) :
            C16_Raw(msg[i].attributes).t = "num" =>
                /\ out.spans[i].duration_ms = C16_Expected(C16_Raw(msg[i].attributes).v)
                /\ C16_Raw(msg[i].attributes).v = RInt(50000000) =>
                       out.spans[i].duration_ms = RInt(50)
                /\ C16_Raw(msg[i].attributes).v = RInt(50) =>
                       out.spans[i].duration_ms = RInt(50)
                /\ C16_Raw(msg[i].attributes).v = RInt(10000) =>
                       out.spans[i].duration_ms = RInt(10000)

\* the durations 10000 and 10001 in one list
C16_Witness ==
    /\ pc = "group"
    /\ \E i \in 1..Len(msg) :
           /\ C16_Raw(msg[i].attributes).t = "num"
           /\ C16_Raw(msg[i].attributes).v = RInt(10000)
           /\ out.spans[i].duration_ms = RInt(10000)
    /\ \E i \in 1..Len(msg) :
           /\ C16_Raw(msg[i].attributes).t = "num"
           /\ C16_Raw(msg[i].attributes).v = RInt(10001)
           /\ out.spans[i].duration_ms = Rat(10001, 1000000)

\* C17: normalize_span is total: for every raw span record, whatever the
\* type or value of the fields present, it returns a SpanView and never
\* raises.
C17_NeverRaises == pc # "raised"

\* C18: every Windows value built by windows_ending_at or by
\* analyze_from_service has baseline.end = incident.start and
\* incident.end = anchor; for windows_ending_at, incident.start is the
\* anchor minus window_minutes and baseline.start is incident.start minus
\* baseline_minutes (window_minutes when none is given).
C18_BaselinePrecedesIncident ==
    /\ pc \in {"windows", "symptom", "logs"} =>
           /\ out.baseline.end = out.incident.start
           /\ out.incident.end = out.anchor
    /\ pc = "windows" =>
           /\ out.anchor = msg.anchor
           /\ out.incident.start = msg.anchor - 60000 * msg.window_minutes
           /\ msg.baseline_minutes # <<>> =>
                  out.baseline.start = out.incident.start - 60000 * msg.baseline_minutes[1]
           /\ msg.baseline_minutes = <<>> =>
                  out.baseline.start = out.incident.start - 60000 * msg.window_minutes
    /\ pc \in {"symptom", "logs"} =>
           /\ out.incident.start = msg.start
           /\ out.anchor = msg.end

\* windows of windows_ending_at with different lengths of the two windows
C18_Witness ==
    /\ pc = "windows"
    /\ msg.baseline_minutes # <<>>
    /\ msg.window_minutes > 0
    /\ msg.baseline_minutes[1] > msg.window_minutes
    /\ out.baseline.start < out.baseline.end
    /\ out.incident.start < out.incident.end

\* C19: every TimeWindow windows_ending_at returns has end > start; with
\* window_minutes <= 0 the operation fails instead of returning windows.
C19_WindowsArePositive ==
    pc = "windows" =>
        /\ msg.window_minutes > 0
        /\ out.incident.end > out.incident.start
        /\ out.baseline.end > out.baseline.start

\* C20: analyze_from_service with end <= start fails before any query is
\* issued to the telemetry client; with end > start it does not fail on
\* the construction of the windows.
C20_FailsBeforeAnyQuery ==
    /\ pc = "raised" => (msg.end <= msg.start /\ calls = <<>>)
    /\ pc \in {"symptom", "logs"} => msg.end > msg.start
    /\ calls # <<>> => msg.end > msg.start

\* the call with end = start has failed
C20_Witness ==
    /\ pc = "raised"
    /\ msg.end = msg.start
    /\ out = [raised |-> "ValueError"]


\* the queries of calls that raised
RaisedQueries == {calls[i].query : i \in {j \in 1..Len(calls) : calls[j].raised}}

\* the queries of calls, raised or not
Queries == {calls[i].query : i \in 1..Len(calls)}

\* _maybe_apm_attribution has returned
ApmReturned == apm_findings # NoFindings

\* the log clusters and the log candidates of the run
C21_LogClusters ==
    rank_clusters(merge_baseline_counts(cluster_logs(incident_logs), baseline_logs),
                  rank_limit)

C21_LogCandidates == score_log_clusters(C21_LogClusters, score_limit)

\* C21: when the scope lacks service or env, no span query is made and
\* the attribution returns findings with enabled false and no candidates;
\* when a span query raises DatadogError, it returns findings with
\* enabled true and an error, and no candidates, the failure does not end
\* the run, and once the events query has returned the report holds the
\* log clusters, the log candidates and the events.
C21_DisabledOrFailed ==
    /\ ~scope_complete =>
          /\ "search_spans" \notin Queries
          /\ ApmReturned =>
                /\ apm_findings.enabled = FALSE
                /\ "error" \notin DOMAIN apm_findings
                /\ apm_candidates = <<>>
    /\ "search_spans" \in RaisedQueries =>
          /\ apm_findings.enabled = TRUE
          /\ "error" \in DOMAIN apm_findings
          /\ apm_candidates = <<>>
          /\ pc = "raised" => RaisedQueries # {"search_spans"}
          /\ pc = "done" =>
                /\ top_clusters = C21_LogClusters
                /\ report_candidates
                     = Take(SortDesc(ScoreGt, C21_LogCandidates), MaxCandidates)
                /\ "events" \in DOMAIN out

\* C21 witness: a run whose span query raised has returned a report with
\* log candidates and events
C21_Witness ==
    /\ pc = "done"
    /\ "search_spans" \in RaisedQueries
    /\ report_candidates # <<>>
    /\ out.events # <<>>

\* the run ended with the DatadogError of a query
EndedByQuery == pc = "raised" /\ calls # <<>> /\ calls[Len(calls)].raised

\* C22: when exactly one query of a run raises DatadogError, a search of
\* logs, events or spans or a metrics query, the run does not end with
\* that error: it goes on to return a report.
C22_OneFailureStillReports ==
    (/\ Cardinality({i \in 1..Len(calls) : calls[i].raised}) = 1
     /\ RaisedQueries \subseteq {"search_logs", "search_events", "query_metrics",
                                  "search_spans"})
    => ~EndedByQuery

\* an attempt answered with a status below 400
C24_Ok(a) == ~a.raised /\ a.status < 400

\* an attempt answered with status 429, 500, 502, 503 or 504, or one where
\* the session raised
C24_Retryable(a) == a.raised \/ a.status \in {429, 500, 502, 503, 504}

C28_ErrorStatus(a) ==
    ~a.raised /\ a.status >= 400 /\ a.status \notin {429, 500, 502, 503, 504}

\* C28: an attempt answered with a non-retryable error status is the last
\* attempt, whatever max_retries: _request then raises a DatadogError whose
\* message holds status=<code>.
C28_ErrorStatusNotRetried ==
    \A i \in 1..Len(calls) :
        C28_ErrorStatus(calls[i]) =>
            /\ i = Len(calls)
            /\ pc \in {"failed", "raised"}
            /\ out.last_err = StatusError(calls[i].status)

\* the requests of calls that were answered
PagesAnswered == SelectSeq(calls, LAMBDA c : ~c.raised)

\* a response that carries an after cursor (an empty one counts as none)
HasAfter(c) == c.after # NoneStr /\ c.after # <<>>

\* the data of the first n pages, in request order
RECURSIVE PagesData(_, _)
PagesData(pages, n) ==
    IF n = 0 THEN <<>>
    ELSE PagesData(pages, n - 1)
         \o (IF pages[n].data = NoneStr THEN <<>> ELSE pages[n].data)

\* the cursors of the requests follow the responses, and no request
\* follows a response without after or the max_pages-th request
CursorPaging(pages) ==
    /\ Len(pages) <= msg.max_pages
    /\ \A i \in 1..Len(pages) :
         /\ i = 1 => pages[i].cursor = NoneStr
         /\ i > 1 => (HasAfter(pages[i - 1]) /\ pages[i].cursor = pages[i - 1].after)
    /\ pc = "returned" =>
         /\ out.items = PagesData(pages, Len(pages))
         /\ \/ Len(pages) = msg.max_pages
            \/ Len(pages) > 0 /\ ~HasAfter(pages[Len(pages)])
    /\ (Len(pages) > 0 /\ ~HasAfter(pages[Len(pages)])) => pc = "returned"
    /\ (pc = "page" /\ Len(pages) > 0) => out.cursor = pages[Len(pages)].after

\* C25: search_logs sends its first request without cursor and each later
\* request with the after cursor of the response before it, makes no
\* request after a response without after or after max_pages requests, and
\* returns the data of the pages concatenated in request order.
C25_LogsCursorPaging == msg.op = "search_logs" => CursorPaging(PagesAnswered)

\* C25 witness: search_logs has returned the records of two pages, the
\* second one requested with the cursor of the first
C25_Witness ==
    /\ msg.op = "search_logs"
    /\ pc = "returned"
    /\ Len(calls) = 2
    /\ calls[2].cursor = <<"c", "1">>
    /\ out.items = <<"1", "2", "3">>

\* C26: search_spans pages like search_logs: its second request carries
\* the after cursor of the first response, and the spans of all pages are
\* returned concatenated in request order.
C26_SpansCursorPaging == msg.op = "search_spans" => CursorPaging(PagesAnswered)

\* C26 witness: search_spans has returned the spans of two pages, the
\* second one requested with the cursor of the first
C26_Witness ==
    /\ msg.op = "search_spans"
    /\ pc = "returned"
    /\ Len(calls) = 2
    /\ calls[2].cursor = <<"c", "2">>
    /\ out.items = <<"3", "1", "2">>

\* the top_endpoints of the findings for the endpoint groups of the two
\* windows
C30_Top(endpoints_inc, endpoints_base) ==
    top_endpoints(SortDesc(DeltaGt, endpoint_rows(mode, endpoints_inc, endpoints_base)),
                  endpoints_inc, endpoints_base)

\* C30: the endpoint statistics of the incident and of the baseline window
\* are computed over the same span population: both from the server spans
\* only, or both from all spans of the window.
C30_SamePopulation ==
    Attributed =>
        LET inc == normalized(incident_spans)
            base == normalized(baseline_spans)
        IN  \/ apm_findings.top_endpoints
                 = C30_Top(group_endpoint_stats(of_kind(inc, ServerKind)),
                           group_endpoint_stats(of_kind(base, ServerKind)))
            \/ apm_findings.top_endpoints
                 = C30_Top(group_endpoint_stats(inc), group_endpoint_stats(base))

\* the number of queries of calls of that name that returned
ReturnedCount(query) ==
    Cardinality({i \in 1..Len(calls) : calls[i] = Returned(query)})

\* the steps that cluster, merge, rank and score the logs, and the steps
\* that aggregate and score the spans and combine the candidates
LogSteps == {"cluster", "merge", "rank", "score"}

SpanSteps == {"spans", "combine"}

\* C27: a step of log clustering, baseline merge, ranking or scoring is
\* taken only after both log searches have returned, a step of span
\* aggregation and APM scoring only after both span searches have
\* returned, and none of these steps makes a call to the client.
C27_StepsFollowFetches ==
    [][/\ pc \in LogSteps => (ReturnedCount("search_logs") = 2 /\ calls' = calls)
       /\ pc = "spans" => (ReturnedCount("search_spans") = 2 /\ calls' = calls)
       /\ pc = "combine" => calls' = calls]_vars

\* C27 witness: a run has clustered its logs and attributed its spans
\* after two log searches and two span searches
C27_Witness ==
    /\ pc = "done"
    /\ clusters # <<>>
    /\ "counts" \in DOMAIN apm_findings
    /\ apm_candidates # <<>>
    /\ ReturnedCount("search_logs") = 2
    /\ ReturnedCount("search_spans") = 2

\* the sum of count_incident over the first n clusters
RECURSIVE C29_Sum(_, _)
C29_Sum(cs, n) == IF n = 0 THEN 0 ELSE C29_Sum(cs, n - 1) + cs[n].count_incident

\* C29: the clusters that cluster_logs returns for a list of n records
\* have count_incident values that sum to n, each at least 1, and
\* count_baseline 0; for the empty list there is no cluster.
C29_ClustersConserveRecords ==
    [][ClusterLogs =>
          /\ C29_Sum(clusters', Len(clusters')) = Len(incident_logs)
          /\ \A i \in 1..Len(clusters') :
                clusters'[i].count_incident >= 1 /\ clusters'[i].count_baseline = 0
          /\ incident_logs = <<>> => clusters' = <<>>]_vars

\* C29 witness: several records were clustered into fewer clusters
C29_Witness ==
    /\ pc = "merge"
    /\ Len(incident_logs) >= 2
    /\ Len(clusters) >= 1
    /\ Len(clusters) < Len(incident_logs)

=============================================================================
